---- MODULE Spec2Model ----
(***************************************************************************)
(* CYD Paint v24 (src/unnamed/part_001): the raster/compression core.      *)
(*                                                                         *)
(* The model covers the run-length codec, the undo/redo rings, the         *)
(* animation frame store with its live/compressed swap protocol, the heap  *)
(* the blobs live in, and the .CYD project file.                           *)
(*                                                                         *)
(* A pixel buffer is a sequence of 16-bit values; the C index i is the     *)
(* sequence index i + 1.  A blob is a sequence of bytes.                   *)
(***************************************************************************)
EXTENDS Integers, Sequences, FiniteSets, TLC

\* ------------------------------------------------------------------------
\* Colours (RGB565) and small helpers
\* ------------------------------------------------------------------------
C_BLACK == 0
C_WHITE == 65535
C_RED == 63488

Colors == {C_WHITE, C_BLACK, C_RED}

Min(a, b) == IF a < b THEN a ELSE b

Uniform(n, c) == [k \in 1..n |-> c]

\* ------------------------------------------------------------------------
\* RLE codec
\* ------------------------------------------------------------------------

\* Longest run a record can carry: the literal 255 of rleCompress's inner loop.
RLE_MAX_RUN == 255

\* A run cut one pixel short of RLE_MAX_RUN.
rleRunGoesOn_Short(src, n, i, cnt) ==
    cnt < RLE_MAX_RUN - 1 /\ i + cnt < n /\ src[i + cnt + 1] = src[i + 1]

\* The condition of the inner while of rleCompress.
rleRunGoesOn(src, n, i, cnt) ==
    cnt < RLE_MAX_RUN /\ i + cnt < n /\ src[i + cnt + 1] = src[i + 1]

\* The inner while of rleCompress: cnt starts at 1 and is incremented while the
\* condition holds, so it ends at the first value at which the condition fails.
rleRunLen(src, n, i) ==
    CHOOSE cnt \in 1..RLE_MAX_RUN :
        /\ ~rleRunGoesOn(src, n, i, cnt)
        /\ \A d \in 1..(cnt - 1) : rleRunGoesOn(src, n, i, d)

\* The three bytes of one record: count, low byte, high byte.
rleRecord(cnt, pix) == <<cnt, pix % 256, pix \div 256>>

\* An overflow test that refuses the record that exactly fills the buffer.
rleOverflow_Tight(out, dstCap) == out + 3 >= dstCap

\* The overflow test made before a record is written.
rleOverflow(out, dstCap) == out + 3 > dstCap

\* The state of the outer while of rleCompress.  dst is the sequence of bytes
\* written so far: a record is written at offsets out, out+1, out+2, so
\* Len(dst) = out when hasDst, and a write at an offset >= dstCap shows as
\* Len(dst) > dstCap.  over is set by the return 0 of the overflow test.
rleCompressStart == [i |-> 0, out |-> 0, dst |-> <<>>, over |-> FALSE]

\* A record appended to the state.
rleCompressEmit(src, hasDst, st, cnt) ==
    [i |-> st.i + cnt, out |-> st.out + 3,
     dst |-> IF hasDst THEN st.dst \o rleRecord(cnt, src[st.i + 1]) ELSE st.dst,
     over |-> FALSE]

\* One pass of the outer while of rleCompress.
rleCompressBody(src, n, hasDst, dstCap, st) ==
    IF hasDst /\ rleOverflow(st.out, dstCap)
    THEN [st EXCEPT !.over = TRUE]
    ELSE rleCompressEmit(src, hasDst, st, rleRunLen(src, n, st.i))

\* The least k with 4^k >= n.
RECURSIVE Log4Up(_)
Log4Up(n) == IF n <= 1 THEN 0 ELSE 1 + Log4Up((n + 3) \div 4)

\* The outer while of rleCompress, run for at most 4^k passes (a pass takes at
\* least one pixel, so Log4Up(n) is enough for k).  It ends when i < n fails
\* or the overflow test returned.  The tuple has the four quarters of the
\* passes computed one after the other, each from the state the one before
\* left; its last entry is the state after all of them.
RECURSIVE rleCompressLoop(_, _, _, _, _, _)
rleCompressLoop(src, n, hasDst, dstCap, k, st) ==
    IF st.over \/ st.i >= n THEN st
    ELSE IF k = 0 THEN rleCompressBody(src, n, hasDst, dstCap, st)
    ELSE LET q1 == rleCompressLoop(src, n, hasDst, dstCap, k - 1, st)
             q2 == rleCompressLoop(src, n, hasDst, dstCap, k - 1, q1)
             q3 == rleCompressLoop(src, n, hasDst, dstCap, k - 1, q2)
             q4 == rleCompressLoop(src, n, hasDst, dstCap, k - 1, q3)
         IN  <<q1, q2, q3, q4>>[4]

\* What rleCompress returns and has written when its loop ends in st.
rleCompressEnd(st) == [ret |-> IF st.over THEN 0 ELSE st.out, dst |-> st.dst]

\* rleCompress(src, dst, dstCap); hasDst = FALSE is the dry run (dst == nullptr).
\* Every pixel buffer has CANVAS_W * CANVAS_H entries, which is Len(src).
rleCompress(src, hasDst, dstCap) ==
    rleCompressEnd(rleCompressLoop(src, Len(src), hasDst, dstCap,
                                   Log4Up(Len(src)), rleCompressStart))

\* A run that is not clamped to the destination.
rleRunEnd_Unclamped(out, cnt, total) == out + cnt

\* Where the run of a record ends in the destination.
rleRunEnd(out, cnt, total) == Min(out + cnt, total)

\* The two bytes of the pixel taken in the other order.
rlePixel_Swapped(lo, hi) == hi + lo * 256

\* The pixel a record carries.
rlePixel(lo, hi) == lo + hi * 256

\* The colour of the pixels the input does not cover.
rlePad == C_WHITE

\* The padding loop of rleDecompress: every pixel from out on becomes white.
rlePadTail(dst, out) ==
    SubSeq(dst, 1, Min(out, Len(dst))) \o Uniform(Len(dst) - Min(out, Len(dst)), rlePad)

\* The state of the for loop of rleDecompress.  w is the sequence of pixels
\* written so far (dst[out++] = pix writes them in order, so Len(w) = out); a
\* write at an index >= total shows as Len(w) > total.
rleDecompressStart == [i |-> 0, w |-> <<>>]

\* One pass of the for loop: a record replayed.
rleDecompressBody(src, total, st) ==
    [i |-> st.i + 3,
     w |-> st.w \o Uniform(rleRunEnd(Len(st.w), src[st.i + 1], total) - Len(st.w),
                           rlePixel(src[st.i + 2], src[st.i + 3]))]

\* The for loop of rleDecompress, run for at most 4^k passes (a pass takes
\* three bytes, so Log4Up(srcLen) is enough for k).  It ends when
\* i + 2 < srcLen && out < total fails.
RECURSIVE rleDecompressLoop(_, _, _, _, _)
rleDecompressLoop(src, srcLen, total, k, st) ==
    IF st.i + 2 >= srcLen \/ Len(st.w) >= total THEN st
    ELSE IF k = 0 THEN rleDecompressBody(src, total, st)
    ELSE LET q1 == rleDecompressLoop(src, srcLen, total, k - 1, st)
             q2 == rleDecompressLoop(src, srcLen, total, k - 1, q1)
             q3 == rleDecompressLoop(src, srcLen, total, k - 1, q2)
             q4 == rleDecompressLoop(src, srcLen, total, k - 1, q3)
         IN  <<q1, q2, q3, q4>>[4]

\* The destination after the for loop wrote w over its previous contents dst.
rleWritten(w, dst) ==
    IF Len(w) >= Len(dst) THEN SubSeq(w, 1, Len(dst))
    ELSE w \o SubSeq(dst, Len(w) + 1, Len(dst))

\* What rleDecompress leaves when its for loop wrote w.
rleDecompressEnd(w, dst) ==
    [dst |-> rlePadTail(rleWritten(w, dst), Len(w)), oob |-> Len(w) > Len(dst)]

\* rleDecompress with its out-of-range writes made visible: dst holds the
\* destination's previous contents.
rleDecompressFull(src, srcLen, dst) ==
    rleDecompressEnd(rleDecompressLoop(src, srcLen, Len(dst), Log4Up(srcLen),
                                       rleDecompressStart).w, dst)

\* rleDecompress(src, srcLen, dst): the destination afterwards.
rleDecompress(src, srcLen, dst) == rleDecompressFull(src, srcLen, dst).dst

\* ------------------------------------------------------------------------
\* Program constants, scaled to a canvas TLC can enumerate
\* ------------------------------------------------------------------------

\* The canvas (200 x 200 in the source).
CANVAS_W == 2
CANVAS_H == 2
NPIX == CANVAS_W * CANVAS_H

\* Frames of an animation (8 in the source) and slots of each history ring
\* (20 in the source).
MAX_FRAMES == 3
UNDO_MAX_SLOTS == 2

\* Cap of a compressed frame (24000 in the source): two records.
ANIM_MAX_RLE_BYTES == 6

\* Free heap an undo snapshot must leave (20000 in the source), the size of the
\* heap, and the amounts of it held by the rest of the firmware (selection
\* buffers, file buffers, strings).
UNDO_HEAP_RESERVE == 10
HEAP_BYTES == 40
HeapOtherLevels == {0, HEAP_BYTES - 2 * UNDO_HEAP_RESERVE, HEAP_BYTES - 2}

\* Addresses malloc can return; 0 is the null pointer.
NAddr == MAX_FRAMES + 2 * UNDO_MAX_SLOTS + 2
Addrs == 1..NAddr

\* Operations in one run of the model.
MaxSteps == 5

\* (uint32_t)d < r for a difference d of two heap sizes and a reserve r, all far
\* below 2^31: a negative d wraps to 2^32 + d, which is above every such r.
U32Less(d, r) == IF d < 0 THEN FALSE ELSE d < r

NullSlot == [data |-> 0, size |-> 0]

\* ------------------------------------------------------------------------
\* Program state
\* ------------------------------------------------------------------------
VARIABLES
    canvas,          \* uint16_t canvas[CANVAS_W * CANVAS_H]
    heap,            \* address -> bytes of the block allocated there, <<>> when free
    heapOther,       \* bytes of heap held by code outside the model
    ub,              \* a block was freed twice or used after being freed
    undoStack, undoCount, undoTop,
    redoStack, redoCount, redoTop,
    animStore, animFrameCount, animCurFrame,
    animFPS, animFrameDelay, animPlaying, animPingPong, animPlayDir,
    currentScreen,
    sdFile,          \* the project file last written by saveCYD, or NoFile
    steps,           \* operations so far
    last,            \* the last operation and its outcome
    hist,            \* the canvases around the last stroke, for undo/redo
    rle,             \* the codec harness
    tool             \* the drawing-tool harness: fill, stamp, selection

progVars == <<canvas, heap, heapOther, ub, undoStack, undoCount, undoTop,
              redoStack, redoCount, redoTop, animStore, animFrameCount,
              animCurFrame, animFPS, animFrameDelay, animPlaying, animPingPong,
              animPlayDir, currentScreen, sdFile, steps, last, hist>>

vars == <<progVars, rle, tool>>

NoFile == [kind |-> "none"]

\* The program's globals as one record, so that a handler is a function from
\* record to record and calls compose.  ret is the value returned by the
\* call made last.
Cur ==
    [canvas |-> canvas, heap |-> heap, heapOther |-> heapOther, ub |-> ub,
     undoStack |-> undoStack, undoCount |-> undoCount, undoTop |-> undoTop,
     redoStack |-> redoStack, redoCount |-> redoCount, redoTop |-> redoTop,
     animStore |-> animStore, animFrameCount |-> animFrameCount,
     animCurFrame |-> animCurFrame, animFPS |-> animFPS,
     animFrameDelay |-> animFrameDelay, animPlaying |-> animPlaying,
     animPingPong |-> animPingPong, animPlayDir |-> animPlayDir,
     currentScreen |-> currentScreen, sdFile |-> sdFile, ret |-> "none"]

Install(s) ==
    /\ canvas' = s.canvas
    /\ heap' = s.heap
    /\ heapOther' = s.heapOther
    /\ ub' = s.ub
    /\ undoStack' = s.undoStack
    /\ undoCount' = s.undoCount
    /\ undoTop' = s.undoTop
    /\ redoStack' = s.redoStack
    /\ redoCount' = s.redoCount
    /\ redoTop' = s.redoTop
    /\ animStore' = s.animStore
    /\ animFrameCount' = s.animFrameCount
    /\ animCurFrame' = s.animCurFrame
    /\ animFPS' = s.animFPS
    /\ animFrameDelay' = s.animFrameDelay
    /\ animPlaying' = s.animPlaying
    /\ animPingPong' = s.animPingPong
    /\ animPlayDir' = s.animPlayDir
    /\ currentScreen' = s.currentScreen
    /\ sdFile' = s.sdFile

\* setup(): a white canvas, empty store and rings, one frame.
ProgramStart ==
    /\ canvas = Uniform(NPIX, C_WHITE)
    /\ heap = [a \in Addrs |-> <<>>]
    /\ ub = FALSE
    /\ undoStack = [i \in 0..(UNDO_MAX_SLOTS - 1) |-> NullSlot]
    /\ undoCount = 0
    /\ undoTop = 0
    /\ redoStack = [i \in 0..(UNDO_MAX_SLOTS - 1) |-> NullSlot]
    /\ redoCount = 0
    /\ redoTop = 0
    /\ animStore = [i \in 0..(MAX_FRAMES - 1) |-> NullSlot]
    /\ animFrameCount = 1
    /\ animCurFrame = 0
    /\ animFPS = 6
    /\ animFrameDelay = [i \in 0..(MAX_FRAMES - 1) |-> 0]
    /\ animPlaying = FALSE
    /\ animPingPong = FALSE
    /\ animPlayDir = 1
    /\ currentScreen = "SCR_MAIN"
    /\ sdFile = NoFile
    /\ steps = 0
    /\ last = [op |-> "setup", ret |-> "none"]
    /\ hist = [phase |-> "none"]

Init ==
    /\ ProgramStart
    /\ heapOther \in HeapOtherLevels
    /\ rle = [pc |-> "idle"]
    /\ tool = [pc |-> "idle"]

\* ------------------------------------------------------------------------
\* Heap
\* ------------------------------------------------------------------------
RECURSIVE HeapUsed(_, _)
HeapUsed(h, a) == IF a = 0 THEN 0 ELSE Len(h[a]) + HeapUsed(h, a - 1)

\* ESP.getFreeHeap()
getFreeHeap(s) == HEAP_BYTES - s.heapOther - HeapUsed(s.heap, NAddr)

\* malloc(sz): the address of a free block, or 0.  ok = FALSE is a failure the
\* free byte count does not explain (fragmentation).
malloc(s, sz, ok) ==
    LET freeAddrs == {a \in Addrs : s.heap[a] = <<>>}
    IN  IF ok /\ sz <= getFreeHeap(s) /\ freeAddrs # {}
        THEN CHOOSE a \in freeAddrs : \A b \in freeAddrs : a <= b
        ELSE 0

\* The block at ptr filled with bytes.
Fill(s, ptr, bytes) == [s EXCEPT !.heap[ptr] = bytes]

\* free(ptr), ptr not null.
free(s, ptr) ==
    IF s.heap[ptr] = <<>> THEN [s EXCEPT !.ub = TRUE]
    ELSE [s EXCEPT !.heap[ptr] = <<>>]

\* The bytes a slot points to (none behind a null pointer).
Blob(s, slot) == IF slot.data = 0 THEN <<>> ELSE s.heap[slot.data]

\* Reading slot.size bytes at slot.data is undefined: a null pointer with a
\* size, or a block that was freed.
BadRead(s, slot) ==
    \/ slot.data = 0 /\ slot.size > 0
    \/ slot.data # 0 /\ s.heap[slot.data] = <<>>

\* ------------------------------------------------------------------------
\* Undo / Redo
\* ------------------------------------------------------------------------

\* The value a call returns, or how a void call ended, kept in the record as
\* a string.
Ret(s, r) == [s EXCEPT !.ret = r]

\* A release that leaves the pointer in the slot.
undoFreeSlot_Keep(s, ring, i) ==
    IF s[ring][i].data # 0 THEN free(s, s[ring][i].data) ELSE s

\* undoFreeSlot(&ring[i]), ring being "undoStack" or "redoStack".
undoFreeSlot(s, ring, i) ==
    IF s[ring][i].data # 0
    THEN [free(s, s[ring][i].data) EXCEPT ![ring][i] = NullSlot]
    ELSE s

RECURSIVE FreeSlotsBelow(_, _, _)
FreeSlotsBelow(s, ring, i) ==
    IF i = 0 THEN s ELSE FreeSlotsBelow(undoFreeSlot(s, ring, i - 1), ring, i - 1)

undoClearAll(s) ==
    [FreeSlotsBelow(s, "undoStack", UNDO_MAX_SLOTS) EXCEPT !.undoCount = 0, !.undoTop = 0]

redoClearAll(s) ==
    [FreeSlotsBelow(s, "redoStack", UNDO_MAX_SLOTS) EXCEPT !.redoCount = 0, !.redoTop = 0]

\* The heap budget test of undoPush and undoPerform, in unsigned arithmetic.
BelowReserve(s, sz) == U32Less(getFreeHeap(s) - sz, UNDO_HEAP_RESERVE)

\* The slot of the oldest undo entry.
undoOldest(s) == (s.undoTop - s.undoCount + UNDO_MAX_SLOTS) % UNDO_MAX_SLOTS

\* An eviction that takes the newest undo entry.
undoDropOldest_Newest(s) ==
    IF s.undoCount > 0
    THEN [undoFreeSlot(s, "undoStack", (s.undoTop - 1 + UNDO_MAX_SLOTS) % UNDO_MAX_SLOTS)
          EXCEPT !.undoCount = s.undoCount - 1]
    ELSE s

\* The eviction made by undoPush under heap pressure.
undoDropOldest(s) ==
    IF s.undoCount > 0
    THEN [undoFreeSlot(s, "undoStack", undoOldest(s)) EXCEPT !.undoCount = s.undoCount - 1]
    ELSE s

\* What undoPush does with the redo ring once the snapshot is stored.
undoPushRedo(s) == redoClearAll(s)

\* ring[top] = {buf, sz}; top = (top + 1) % N; if (count < N) count++;
\* s being the state with the slot at top already freed.
ringPush(s, ring, top, count, buf, sz) ==
    [s EXCEPT ![ring][s[top]] = [data |-> buf, size |-> sz],
              ![top] = (s[top] + 1) % UNDO_MAX_SLOTS,
              ![count] = IF s[count] < UNDO_MAX_SLOTS THEN s[count] + 1 ELSE s[count]]

\* A snapshot of the canvas written into the block buf and pushed on a ring.
snapshotPush(s, ring, top, count, buf, sz) ==
    ringPush(undoFreeSlot(Fill(s, buf, rleCompress(s.canvas, TRUE, sz).dst), ring, s[top]),
             ring, top, count, buf, sz)

\* undoPush() from the malloc on.
undoPushStore(s, buf, sz) ==
    IF buf = 0 THEN Ret(s, "dropped")
    ELSE Ret(undoPushRedo(snapshotPush(s, "undoStack", "undoTop", "undoCount", buf, sz)),
             "stored")

\* undoPush() after the eviction: the recheck.
undoPushRecheck(s, sz, ok) ==
    IF BelowReserve(s, sz) THEN Ret(s, "dropped")
    ELSE undoPushStore(s, malloc(s, sz, ok), sz)

\* undoPush() from the dry-run size on.
undoPushSized(s, sz, ok) ==
    IF sz = 0 THEN Ret(s, "dropped")
    ELSE IF BelowReserve(s, sz) THEN undoPushRecheck(undoDropOldest(s), sz, ok)
    ELSE undoPushStore(s, malloc(s, sz, ok), sz)

\* undoPush(); ret tells whether the snapshot was stored.
undoPush(s, ok) == undoPushSized(s, rleCompress(s.canvas, FALSE, 0).ret, ok)

\* The redo snapshot of undoPerform, from the malloc on.
undoSaveRedoStore(s, rbuf, rsz) ==
    IF rbuf = 0 THEN Ret(s, "unsaved")
    ELSE Ret(snapshotPush(s, "redoStack", "redoTop", "redoCount", rbuf, rsz), "saved")

\* The redo snapshot taken by undoPerform.
undoSaveRedoSized(s, rsz, ok) ==
    IF rsz > 0 /\ ~BelowReserve(s, rsz)
    THEN undoSaveRedoStore(s, malloc(s, rsz, ok), rsz)
    ELSE Ret(s, "unsaved")

\* Pop of a ring: the newest entry decompressed into the canvas and freed.
ringPopAt(s, ring, top, count, t) ==
    undoFreeSlot(
        [s EXCEPT ![top] = t,
                  ![count] = s[count] - 1,
                  !.canvas = rleDecompress(Blob(s, s[ring][t]), s[ring][t].size, s.canvas),
                  !.ub = s.ub \/ BadRead(s, s[ring][t])],
        ring, t)

\* A pop that reads the slot at top instead of the one below it.
ringPop_AtTop(s, ring, top, count) ==
    ringPopAt(s, ring, top, count, s[top])

ringPop(s, ring, top, count) ==
    ringPopAt(s, ring, top, count, (s[top] - 1 + UNDO_MAX_SLOTS) % UNDO_MAX_SLOTS)

\* undoPerform(); ret: "none" when the ring was empty, else whether the redo
\* snapshot was saved.
undoPerform(s, ok) ==
    IF s.undoCount <= 0 THEN Ret(s, "none")
    ELSE ringPop(undoSaveRedoSized(s, rleCompress(s.canvas, FALSE, 0).ret, ok),
                 "undoStack", "undoTop", "undoCount")

\* The undo snapshot of redoPerform, from the malloc on.
redoSaveUndoStore(s, ubuf, usz) ==
    IF ubuf = 0 THEN Ret(s, "unsaved")
    ELSE Ret(snapshotPush(s, "undoStack", "undoTop", "undoCount", ubuf, usz), "saved")

\* The undo snapshot taken by redoPerform (no heap budget test here).
redoSaveUndoSized(s, usz, ok) ==
    IF usz > 0 THEN redoSaveUndoStore(s, malloc(s, usz, ok), usz)
    ELSE Ret(s, "unsaved")

\* redoPerform()
redoPerform(s, ok) ==
    IF s.redoCount <= 0 THEN Ret(s, "none")
    ELSE ringPop(redoSaveUndoSized(s, rleCompress(s.canvas, FALSE, 0).ret, ok),
                 "redoStack", "redoTop", "redoCount")

\* ------------------------------------------------------------------------
\* Animation store
\* ------------------------------------------------------------------------

\* if (animStore[i].data) { free(...); data = nullptr; size = 0; }
animFreeSlot(s, i) ==
    IF s.animStore[i].data # 0
    THEN [free(s, s.animStore[i].data) EXCEPT !.animStore[i] = NullSlot]
    ELSE s

\* A size test without the cap.
animSizeRejected_NoCap(sz) == sz = 0

\* The size test of animCompressAndStore.
animSizeRejected(sz) == sz = 0 \/ sz > ANIM_MAX_RLE_BYTES

\* animCompressAndStore from the malloc on: the old blob is freed only now.
animStoreBlob(s, slot, buf, sz) ==
    IF buf = 0 THEN Ret(s, "false")
    ELSE [(IF s.animStore[slot].data # 0 THEN free(s, s.animStore[slot].data) ELSE s)
             EXCEPT !.heap[buf] = rleCompress(s.canvas, TRUE, sz).dst,
                    !.animStore[slot] = [data |-> buf, size |-> sz],
                    !.ret = "true"]

animCompressSized(s, slot, sz, ok) ==
    IF animSizeRejected(sz) THEN Ret(s, "false")
    ELSE animStoreBlob(s, slot, malloc(s, sz, ok), sz)

\* animCompressAndStore(slot); ret is "true" or "false".
animCompressAndStore(s, slot, ok) ==
    IF slot < 0 \/ slot >= MAX_FRAMES THEN Ret(s, "false")
    ELSE animCompressSized(s, slot, rleCompress(s.canvas, FALSE, 0).ret, ok)

\* animLoadFromStore(slot)
animLoadFromStore(s, slot) ==
    IF slot < 0 \/ slot >= MAX_FRAMES THEN s
    ELSE IF s.animStore[slot].data = 0
    THEN [s EXCEPT !.canvas = Uniform(NPIX, C_WHITE)]
    ELSE [s EXCEPT !.canvas = rleDecompress(Blob(s, s.animStore[slot]),
                                            s.animStore[slot].size, s.canvas),
                   !.ub = s.ub \/ BadRead(s, s.animStore[slot])]

\* A switch that leaves the blob of the frame gone live in its slot.
animActivate_Keep(s, i) == animLoadFromStore(s, i)

\* animLoadFromStore(i) followed by the release of slot i: frame i goes live.
animActivate(s, i) == animFreeSlot(animLoadFromStore(s, i), i)

\* animCommitFrame()
animCommitFrame(s, ok) ==
    IF s.animFrameCount > 1 \/ s.animCurFrame > 0
    THEN animCompressAndStore(s, s.animCurFrame, ok)
    ELSE s

\* A switch that goes on although the commit failed.
animSyncCommitted_Anyway(s, idx) ==
    [animActivate(s, idx) EXCEPT !.animCurFrame = idx]

\* animSyncToFrame after the commit of the live frame.
animSyncCommitted(s, idx) ==
    IF s.ret = "false" THEN s
    ELSE [animActivate(s, idx) EXCEPT !.animCurFrame = idx]

\* animSyncToFrame(idx); ret "false" when the commit failed.
animSyncToFrame(s, idx, ok) ==
    IF idx < 0 \/ idx >= s.animFrameCount \/ idx = s.animCurFrame
    THEN Ret(s, "none")
    ELSE animSyncCommitted(animCompressAndStore(s, s.animCurFrame, ok), idx)

\* for (i = hi; i > lo; i--) animStore[i] = animStore[i-1];
RECURSIVE ShiftUp(_, _, _)
ShiftUp(st, hi, lo) ==
    IF hi > lo THEN ShiftUp([st EXCEPT ![hi] = st[hi - 1]], hi - 1, lo) ELSE st

\* for (i = lo; i < hi; i++) animStore[i] = animStore[i+1];
RECURSIVE ShiftDown(_, _, _)
ShiftDown(st, lo, hi) ==
    IF lo < hi THEN ShiftDown([st EXCEPT ![lo] = st[lo + 1]], lo + 1, hi) ELSE st

\* animAddFrame: the copy of the committed blob src, from the malloc on.
animCopyStore(s, insertAt, src, copy) ==
    IF src.data # 0 /\ src.size > 0 /\ copy # 0
    THEN [s EXCEPT !.heap[copy] = Blob(s, src),
                   !.animStore[insertAt] = [data |-> copy, size |-> src.size]]
    ELSE s

\* animAddFrame: slot insertAt emptied, then filled with a copy of the
\* committed frame.
animCopyBlob(s, insertAt, ok2) ==
    animCopyStore([s EXCEPT !.animStore[insertAt] = NullSlot], insertAt,
                  s.animStore[s.animCurFrame],
                  malloc(s, s.animStore[s.animCurFrame].size, ok2))

\* animAddFrame: the new frame counted, loaded and made live.
animAddLoad(s, insertAt) ==
    [animActivate([s EXCEPT !.animFrameCount = s.animFrameCount + 1], insertAt)
        EXCEPT !.animCurFrame = insertAt, !.ret = "added"]

\* animAddFrame after the commit of the live frame.
animAddCommitted(s, ok2) ==
    IF s.ret = "false" THEN s
    ELSE animAddLoad(
             animCopyBlob([s EXCEPT !.animStore =
                              ShiftUp(s.animStore, s.animFrameCount, s.animCurFrame + 1)],
                          s.animCurFrame + 1, ok2),
             s.animCurFrame + 1)

\* animAddFrame(); ret: "max", "false" (commit failed) or "added".
animAddFrame(s, ok, ok2) ==
    IF s.animFrameCount >= MAX_FRAMES THEN Ret(s, "max")
    ELSE animAddCommitted(animCompressAndStore(s, s.animCurFrame, ok), ok2)

\* animDeleteFrame: the index clamped, the frame there made live.
animDeleteLoad(s) ==
    animActivate(s, s.animCurFrame)

\* A delete that leaves the live index where it was.
animDeleteClamp_Stay(s) == animDeleteLoad(s)

animDeleteClamp(s) ==
    animDeleteLoad(IF s.animCurFrame >= s.animFrameCount
                   THEN [s EXCEPT !.animCurFrame = s.animFrameCount - 1] ELSE s)

\* A delete that drops the last slot in place of the live one.
animDeleteShift_Truncate(s) ==
    animDeleteClamp(
        [s EXCEPT !.animStore = [s.animStore EXCEPT ![s.animFrameCount - 1] = NullSlot],
                  !.animFrameCount = s.animFrameCount - 1])

\* animDeleteFrame: the slots after the live one shifted down, the live
\* slot's blob already freed.
animDeleteShift(s) ==
    animDeleteClamp(
        [s EXCEPT !.animStore =
                     [ShiftDown(s.animStore, s.animCurFrame, s.animFrameCount - 1)
                         EXCEPT ![s.animFrameCount - 1] = NullSlot],
                  !.animFrameCount = s.animFrameCount - 1])

\* animDeleteFrame()
animDeleteFrame(s) ==
    IF s.animFrameCount <= 1 THEN [s EXCEPT !.canvas = Uniform(NPIX, C_WHITE)]
    ELSE animDeleteShift(animFreeSlot(s, s.animCurFrame))

\* animMoveFrame after the (unchecked) commit of the live frame.
animMoveCommitted(s, from, to) ==
    animActivate(
        [s EXCEPT !.animStore =
                     [(IF from < to THEN ShiftDown(s.animStore, from, to)
                       ELSE ShiftUp(s.animStore, from, to))
                         EXCEPT ![to] = s.animStore[from]],
                  !.animCurFrame = to],
        to)

\* animMoveFrame(from, to)
animMoveFrame(s, from, to, ok) ==
    IF from = to \/ from < 0 \/ from >= s.animFrameCount \/ to < 0 \/ to >= s.animFrameCount
    THEN Ret(s, "none")
    ELSE animMoveCommitted(animCompressAndStore(s, s.animCurFrame, ok), from, to)

\* The index of the live frame after a swap of a and b.
animSwapIndex(cur, a, b) == IF cur = a THEN b ELSE IF cur = b THEN a ELSE cur

\* animSwapFrames after the (unchecked) commit of the live frame.
animSwapCommitted(s, a, b) ==
    animActivate(
        [s EXCEPT !.animStore[a] = s.animStore[b],
                  !.animStore[b] = s.animStore[a],
                  !.animCurFrame = animSwapIndex(s.animCurFrame, a, b)],
        animSwapIndex(s.animCurFrame, a, b))

\* animSwapFrames(a, b)
animSwapFrames(s, a, b, ok) ==
    IF a = b \/ a < 0 \/ a >= s.animFrameCount \/ b < 0 \/ b >= s.animFrameCount
    THEN Ret(s, "none")
    ELSE animSwapCommitted(animCompressAndStore(s, s.animCurFrame, ok), a, b)

\* animPlay after the (unchecked) commit of the live frame.
animPlayCommitted(s) ==
    [animLoadFromStore([s EXCEPT !.animCurFrame = 0], 0) EXCEPT !.animPlaying = TRUE]

\* animPlay()
animPlay(s, ok) ==
    IF s.animFrameCount < 2 THEN Ret(s, "none")
    ELSE animPlayCommitted(animCompressAndStore(s, s.animCurFrame, ok))

\* animStop()
animStop(s) == [s EXCEPT !.animPlaying = FALSE]

\* A ping-pong tick that turns round at an end but shows the end frame again.
animPingPongNext_Stay(cur, dir, count, n0) ==
    IF n0 >= count THEN [next |-> cur, dir |-> -1]
    ELSE IF n0 < 0 THEN [next |-> cur, dir |-> 1]
    ELSE [next |-> n0, dir |-> dir]

\* Playback tick with ping-pong on, n0 being animCurFrame + animPlayDir.
animPingPongNext(cur, dir, count, n0) ==
    LET over == n0 >= count
        n1 == IF over THEN cur - 1 ELSE n0
        under == n1 < 0
        n2 == IF under THEN cur + 1 ELSE n1
    IN  [next |-> IF n2 < 0 \/ n2 >= count THEN 0 ELSE n2,
         dir |-> IF under THEN 1 ELSE IF over THEN -1 ELSE dir]

\* The frame a playback tick of loop() shows next, and the direction after it.
animNextFrame(s) ==
    IF s.animPingPong
    THEN animPingPongNext(s.animCurFrame, s.animPlayDir, s.animFrameCount,
                          s.animCurFrame + s.animPlayDir)
    ELSE [next |-> (s.animCurFrame + 1) % s.animFrameCount, dir |-> s.animPlayDir]

\* A tick that snapshots the canvas for undo before overwriting it.
animTickTo_Snapshot(s, nx) ==
    [animLoadFromStore(undoPush(s, TRUE), nx.next)
        EXCEPT !.animCurFrame = nx.next, !.animPlayDir = nx.dir]

\* The tick's effect: the next frame on the canvas, no slot freed.
animTickTo(s, nx) ==
    [animLoadFromStore(s, nx.next) EXCEPT !.animCurFrame = nx.next, !.animPlayDir = nx.dir]

\* The playback tick of loop(), its time threshold reached.
animTick(s) == animTickTo(s, animNextFrame(s))

\* ------------------------------------------------------------------------
\* .CYD project files
\* ------------------------------------------------------------------------

\* The concatenated blobs of frames i .. animFrameCount-1, as saveCYD writes them.
RECURSIVE cydData(_, _)
cydData(s, i) ==
    IF i >= s.animFrameCount THEN <<>>
    ELSE (IF s.animStore[i].data # 0 /\ s.animStore[i].size > 0
          THEN Blob(s, s.animStore[i]) ELSE <<>>) \o cydData(s, i + 1)

\* The file saveCYD writes.
cydFile(s) ==
    [kind |-> "cyd", magic |-> "CYD1", w |-> CANVAS_W, h |-> CANVAS_H,
     fc |-> s.animFrameCount % 256, fps |-> s.animFPS % 256,
     delays |-> s.animFrameDelay,
     sizes |-> [i \in 0..(MAX_FRAMES - 1) |->
                   IF i < s.animFrameCount /\ s.animStore[i].data # 0
                   THEN s.animStore[i].size ELSE 0],
     data |-> cydData(s, 0)]

\* saveCYD after the (unchecked) commit of the live frame.
saveCYDCommitted(s, openOk) ==
    IF ~openOk THEN Ret(s, "openfail")
    ELSE Ret(animActivate([s EXCEPT !.sdFile = cydFile(s)], s.animCurFrame), "saved")

\* saveCYD(), the card present; openOk tells whether SD.open succeeded.
saveCYD(s, openOk, ok) ==
    saveCYDCommitted(animCompressAndStore(s, s.animCurFrame, ok), openOk)

RECURSIVE animFreeBelow(_, _)
animFreeBelow(s, i) == IF i = 0 THEN s ELSE animFreeBelow(animFreeSlot(s, i - 1), i - 1)

\* The blob-reading loop of loadCYD from frame i on, pos bytes of the data
\* already read; the first okN allocations can succeed.
RECURSIVE cydReadBlobs(_, _, _, _, _, _)
cydReadBlobs(s, f, fc, i, pos, okN) ==
    IF i >= fc THEN s
    ELSE IF f.sizes[i] = 0 \/ f.sizes[i] > ANIM_MAX_RLE_BYTES THEN s
    ELSE IF malloc(s, f.sizes[i], i < okN) = 0 THEN s
    ELSE IF Len(f.data) - pos < f.sizes[i] THEN s
    ELSE cydReadBlobs(
             [s EXCEPT !.heap[malloc(s, f.sizes[i], i < okN)] =
                           SubSeq(f.data, pos + 1, pos + f.sizes[i]),
                       !.animStore[i] = [data |-> malloc(s, f.sizes[i], i < okN),
                                         size |-> f.sizes[i]],
                       !.animFrameCount = s.animFrameCount + 1],
             f, fc, i + 1, pos + f.sizes[i], okN)

\* loadCYD after the blobs were read.
loadCYDFinish(s) ==
    IF s.animFrameCount = 0
    THEN [s EXCEPT !.canvas = Uniform(NPIX, C_WHITE), !.animFrameCount = 1,
                   !.animCurFrame = 0, !.ret = "empty"]
    ELSE [animActivate(s, 0) EXCEPT !.animCurFrame = 0, !.ret = "loaded"]

\* loadCYD from the point where the header was accepted.
loadCYDBody(s, f, fc, okN) ==
    loadCYDFinish(
        cydReadBlobs(
            [redoClearAll(undoClearAll(animFreeBelow(s, MAX_FRAMES)))
                EXCEPT !.animFrameDelay = f.delays,
                       !.animFrameCount = 0,
                       !.animFPS = f.fps],
            f, fc, 0, 0, okN))

\* loadCYD(idx), f being the file at idx; ret: "bad", "empty" or "loaded".
loadCYD(s, f, okN) ==
    IF f.kind # "cyd" \/ f.magic # "CYD1" THEN Ret(s, "bad")
    ELSE IF f.w # CANVAS_W \/ f.h # CANVAS_H THEN Ret(s, "bad")
    ELSE loadCYDBody(s, f, IF f.fc < 1 \/ f.fc > MAX_FRAMES THEN 1 ELSE f.fc, okN)

\* ------------------------------------------------------------------------
\* .BMP image files
\* ------------------------------------------------------------------------

\* rgb888to565(r, g, b)
rgb888to565(r, g, b) == (r \div 8) * 2048 + (g \div 4) * 32 + (b \div 8)

\* loadFile: file row i, read as <<b, g, r>> triples, written to canvas row.
bmpRow(s, f, i, row) ==
    [s EXCEPT !.canvas =
        [p \in 1..NPIX |->
            IF (p - 1) \div CANVAS_W = row
            THEN rgb888to565(f.data[i][(p - 1) % CANVAS_W][3],
                             f.data[i][(p - 1) % CANVAS_W][2],
                             f.data[i][(p - 1) % CANVAS_W][1])
            ELSE s.canvas[p]]]

\* The row loop of loadFile from file row i on; f.rows whole rows can be
\* read, a short read breaks the loop.
RECURSIVE bmpRows(_, _, _)
bmpRows(s, f, i) ==
    IF i >= CANVAS_H \/ i >= f.rows THEN s
    ELSE bmpRows(bmpRow(s, f, i, IF f.h > 0 THEN CANVAS_H - 1 - i ELSE i), f, i + 1)

\* loadFile from SD.open on, the rings already cleared.
loadFileOpened(s, f, openOk) ==
    IF ~openOk THEN Ret(s, "openfail")
    ELSE IF ~f.hdr \/ f.magic # "BM" THEN Ret(s, "badmagic")
    ELSE IF f.bpp # 24 THEN Ret(s, "baddepth")
    ELSE IF f.w # CANVAS_W \/ (IF f.h < 0 THEN -f.h ELSE f.h) # CANVAS_H
    THEN Ret(s, "badsize")
    ELSE Ret(bmpRows(s, f, 0), "loaded")

\* loadFile(idx), the card present and f the file at idx.
loadFile(s, f, openOk) == loadFileOpened(redoClearAll(undoClearAll(s)), f, openOk)

\* Files on the card that saveCYD did not write: a foreign file, a project
\* cut short inside its second blob, a project whose fps byte is 0, and a
\* sound project of two frames.
OneBlack == <<NPIX, 0, 0>>
NoDelays == [i \in 0..(MAX_FRAMES - 1) |-> 0]
CraftedFiles ==
    {[kind |-> "cyd", magic |-> "BM", w |-> CANVAS_W, h |-> CANVAS_H, fc |-> 1,
      fps |-> 6, delays |-> NoDelays, sizes |-> [i \in 0..(MAX_FRAMES - 1) |-> 0],
      data |-> <<>>],
     [kind |-> "cyd", magic |-> "CYD1", w |-> CANVAS_W, h |-> CANVAS_H, fc |-> 2,
      fps |-> 6, delays |-> NoDelays,
      sizes |-> [i \in 0..(MAX_FRAMES - 1) |-> IF i < 2 THEN 3 ELSE 0],
      data |-> OneBlack \o <<1>>],
     [kind |-> "cyd", magic |-> "CYD1", w |-> CANVAS_W, h |-> CANVAS_H, fc |-> 1,
      fps |-> 0, delays |-> NoDelays,
      sizes |-> [i \in 0..(MAX_FRAMES - 1) |-> IF i < 1 THEN 3 ELSE 0],
      data |-> OneBlack],
     [kind |-> "cyd", magic |-> "CYD1", w |-> CANVAS_W, h |-> CANVAS_H, fc |-> 2,
      fps |-> 6, delays |-> NoDelays,
      sizes |-> [i \in 0..(MAX_FRAMES - 1) |-> IF i < 2 THEN 3 ELSE 0],
      data |-> OneBlack \o OneBlack]}

CardFiles == CraftedFiles \cup (IF sdFile.kind = "cyd" THEN {sdFile} ELSE {})

\* ------------------------------------------------------------------------
\* Events
\* ------------------------------------------------------------------------
PaintColors == {C_BLACK, C_WHITE}

\* Strokes land on the first MaxPaintPix pixels of the canvas.
MaxPaintPix == 2
PaintPixels == 0..(Min(MaxPaintPix, NPIX) - 1)

\* One operation: the handler's result r installed, the outcome recorded.
Step(op, r, h) ==
    /\ steps < MaxSteps
    /\ \E s \in {r} :
         /\ Install(s)
         /\ last' = [op |-> op, ret |-> s.ret]
    /\ steps' = steps + 1
    /\ hist' = h
    /\ UNCHANGED <<rle, tool>>

NoHist == [phase |-> "none"]

\* canvasSet at 0-based index p.
canvasSet(s, p, c) == [s EXCEPT !.canvas[p + 1] = c]

\* The record of a stroke for the undo/redo round trip: the canvas before
\* the push and after the stamp.
StrokeHist(pushed, before, after) ==
    IF pushed = "stored" THEN [phase |-> "acted", S |-> before, AS |-> after]
    ELSE NoHist

StrokeStamped(s1, s2) == Step("stroke", s2, StrokeHist(s1.ret, canvas, s2.canvas))

StrokePushed(s1, p, c) == StrokeStamped(s1, canvasSet(s1, p, c))

\* loop(), first sample of a stroke on the canvas (pen or eraser, brush size
\* 1, solid pattern, no mirror): undoPush(), then the stamp.
StrokeStart(p, c, ok) ==
    /\ currentScreen = "SCR_MAIN"
    /\ StrokePushed(undoPush(Cur, ok), p, c)

UndoDone(s1) ==
    Step("undo", s1,
         IF hist.phase = "acted" /\ s1.ret # "none"
         THEN [hist EXCEPT !.phase = IF s1.ret = "saved" THEN "undone" ELSE "undoneOnly"]
         ELSE NoHist)

\* handleMainTouch, UNDO button (undoPerform returns at once on an empty ring).
Undo(ok) ==
    /\ currentScreen = "SCR_MAIN"
    /\ undoCount > 0
    /\ UndoDone(undoPerform(Cur, ok))

RedoDone(s1) ==
    Step("redo", s1,
         IF hist.phase = "undone" /\ s1.ret # "none"
         THEN [hist EXCEPT !.phase = "redone"]
         ELSE NoHist)

\* handleMainTouch, REDO button (redoPerform returns at once on an empty ring).
Redo(ok) ==
    /\ currentScreen = "SCR_MAIN"
    /\ redoCount > 0
    /\ RedoDone(redoPerform(Cur, ok))

\* handleMainTouch, ANIM button: animCommitFrame(); drawAnimScreen().
GoAnim(ok) ==
    /\ currentScreen = "SCR_MAIN"
    /\ Step("commit", [animCommitFrame(Cur, ok) EXCEPT !.currentScreen = "SCR_ANIM"], NoHist)

\* Whether loadCYD ended with every frame of the file's table in the store.
LoadCYDHist(s1, f) ==
    [phase |-> "loadCYD",
     whole |-> /\ s1.ret = "loaded"
               /\ s1.animFrameCount = IF f.fc < 1 \/ f.fc > MAX_FRAMES THEN 1 ELSE f.fc]

LoadCYDDone(s1, f) ==
    Step("loadCYD",
         [s1 EXCEPT !.currentScreen =
             IF s1.animFrameCount > 1 THEN "SCR_ANIM" ELSE "SCR_MAIN"],
         LoadCYDHist(s1, f))

\* Gallery, LD button on a project: loadCYD(idx), then the animation screen
\* when the project has several frames, else the main screen.
LoadCYD(f, okN) ==
    /\ currentScreen = "SCR_MAIN"
    /\ LoadCYDDone(loadCYD(Cur, f, okN), f)

AnimIdle == currentScreen = "SCR_ANIM" /\ ~animPlaying

\* handleAnimTouch: filmstrip tap or |<, <F, F>, >| button, on a frame other
\* than the live one (animSyncToFrame returns at once otherwise).
AnimNav(idx, ok) ==
    /\ AnimIdle
    /\ idx < animFrameCount /\ idx # animCurFrame
    /\ Step("sync", animSyncToFrame(Cur, idx, ok), NoHist)

\* handleAnimTouch, +FRM (animAddFrame only shows a message at MAX_FRAMES).
AnimAdd(ok, ok2) ==
    /\ AnimIdle
    /\ Step("add", animAddFrame(Cur, ok, ok2), NoHist)

\* handleAnimTouch, -FRM.
AnimDelete ==
    /\ AnimIdle
    /\ Step("delete", [animDeleteFrame(Cur) EXCEPT !.ret = "none"], NoHist)

\* handleAnimTouch, MOV then a filmstrip tap: the source is the frame that
\* was live when MOV was pressed.
AnimMove(to, ok) ==
    /\ AnimIdle
    /\ to < animFrameCount /\ to # animCurFrame
    /\ Step("move", animMoveFrame(Cur, animCurFrame, to, ok), NoHist)

\* handleAnimTouch, SWP then a filmstrip tap on another frame.
AnimSwap(b, ok) ==
    /\ AnimIdle
    /\ b < animFrameCount /\ b # animCurFrame
    /\ Step("swap", animSwapFrames(Cur, animCurFrame, b, ok), NoHist)

\* handleAnimTouch, PLAY (animPlay returns at once with a single frame).
AnimPlay(ok) ==
    /\ AnimIdle
    /\ animFrameCount >= 2
    /\ Step("play", animPlay(Cur, ok), NoHist)

\* handleAnimTouch during playback: any touch stops it.
AnimStop ==
    /\ currentScreen = "SCR_ANIM" /\ animPlaying
    /\ Step("stop", [animStop(Cur) EXCEPT !.ret = "none"], NoHist)

\* loop(), playback tick.
AnimTick ==
    /\ currentScreen = "SCR_ANIM" /\ animPlaying
    /\ Step("tick", [animTick(Cur) EXCEPT !.ret = "none"], NoHist)

\* handleAnimTouch, PP.
AnimPingPong ==
    /\ AnimIdle
    /\ Step("pp", [Cur EXCEPT !.animPingPong = ~animPingPong, !.animPlayDir = 1], NoHist)

\* handleAnimTouch, DRAW.
AnimDraw ==
    /\ AnimIdle
    /\ Step("draw", [Cur EXCEPT !.currentScreen = "SCR_MAIN"], NoHist)

\* handleAnimTouch, SAVE.
AnimSave(openOk, ok) ==
    /\ AnimIdle
    /\ Step("saveCYD", saveCYD(Cur, openOk, ok), NoHist)

Next ==
    \/ \E p \in PaintPixels, c \in PaintColors, ok \in BOOLEAN : StrokeStart(p, c, ok)
    \/ \E ok \in BOOLEAN : Undo(ok)
    \/ \E ok \in BOOLEAN : Redo(ok)
    \/ \E ok \in BOOLEAN : GoAnim(ok)
    \/ \E f \in CardFiles, okN \in {0, 1, MAX_FRAMES} : LoadCYD(f, okN)
    \/ \E idx \in 0..(MAX_FRAMES - 1), ok \in BOOLEAN : AnimNav(idx, ok)
    \/ \E ok \in BOOLEAN, ok2 \in BOOLEAN : AnimAdd(ok, ok2)
    \/ AnimDelete
    \/ \E to \in 0..(MAX_FRAMES - 1), ok \in BOOLEAN : AnimMove(to, ok)
    \/ \E b \in 0..(MAX_FRAMES - 1), ok \in BOOLEAN : AnimSwap(b, ok)
    \/ \E ok \in BOOLEAN : AnimPlay(ok)
    \/ AnimStop
    \/ AnimTick
    \/ AnimPingPong
    \/ AnimDraw
    \/ \E openOk \in BOOLEAN, ok \in BOOLEAN : AnimSave(openOk, ok)

Spec == Init /\ [][Next]_vars

\* ------------------------------------------------------------------------
\* Drawing, undo/redo and the gallery's image files
\* ------------------------------------------------------------------------

\* Image files on the card.  A pixel is a <<b, g, r>> triple; file row 0 is
\* red, the other rows are a colour whose low bits rgb888to565 drops.
BmpImage ==
    [i \in 0..(CANVAS_H - 1) |->
        [c \in 0..(CANVAS_W - 1) |-> IF i = 0 THEN <<0, 0, 255>> ELSE <<51, 102, 204>>]]

BmpGood ==
    {[hdr |-> TRUE, magic |-> "BM", bpp |-> 24, w |-> CANVAS_W, h |-> h,
      rows |-> n, data |-> BmpImage] :
        h \in {CANVAS_H, -CANVAS_H}, n \in {CANVAS_H - 1, CANVAS_H}}

BmpWhole == [hdr |-> TRUE, magic |-> "BM", bpp |-> 24, w |-> CANVAS_W,
             h |-> CANVAS_H, rows |-> CANVAS_H, data |-> BmpImage]

BmpBad ==
    {[BmpWhole EXCEPT !.hdr = FALSE], [BmpWhole EXCEPT !.magic = "PK"],
     [BmpWhole EXCEPT !.bpp = 32], [BmpWhole EXCEPT !.w = CANVAS_W + 1],
     [BmpWhole EXCEPT !.h = CANVAS_H + 1]}

BmpFiles == BmpGood \cup BmpBad

\* Gallery, LD button on an image: loadFile(idx); drawMainScreen().
LoadFile(f, openOk) ==
    /\ currentScreen = "SCR_MAIN"
    /\ Step("loadFile", loadFile(Cur, f, openOk), NoHist)

NextBmp ==
    \/ \E p \in PaintPixels, c \in PaintColors, ok \in BOOLEAN : StrokeStart(p, c, ok)
    \/ \E ok \in BOOLEAN : Undo(ok)
    \/ \E ok \in BOOLEAN : Redo(ok)
    \/ \E f \in BmpFiles, openOk \in BOOLEAN : LoadFile(f, openOk)

SpecBmp == Init /\ [][NextBmp]_vars

\* ------------------------------------------------------------------------
\* Properties of the program
\* ------------------------------------------------------------------------

\* C1: between events the slot of the live frame is empty and every other
\* slot below animFrameCount holds a blob.
C1_LiveSlotEmpty ==
    /\ animStore[animCurFrame].data = 0
    /\ \A i \in 0..(animFrameCount - 1) : i # animCurFrame => animStore[i].data # 0

\* C2: a stroke whose snapshot was stored, then undo, gives back the canvas
\* before the stroke; a redo right after (the redo snapshot saved) gives back
\* the canvas after the stroke.
C2_UndoRedoRoundTrip ==
    /\ hist.phase \in {"undone", "undoneOnly"} => canvas = hist.S
    /\ hist.phase = "redone" => canvas = hist.AS

C2_Witness ==
    /\ hist.phase = "redone"
    /\ hist.S # hist.AS
    /\ canvas = hist.AS

\* C3: after a canvas-mutating action the redo ring is empty, whether or not
\* the action's snapshot was stored.
C3_RedoEmptyAfterAction ==
    last.op = "stroke" =>
        /\ redoCount = 0
        /\ \A i \in 0..(UNDO_MAX_SLOTS - 1) : redoStack[i].data = 0

\* C4: an undoPush that stores nothing leaves the undo ring, the redo ring and
\* the blobs as they were (the canvas changes only by the stamp that follows
\* the push in the same event).
C4_DroppedPushChangesNothing ==
    [][last'.op = "stroke" /\ last'.ret = "dropped" /\ steps' = steps + 1 =>
          /\ undoStack' = undoStack /\ undoCount' = undoCount /\ undoTop' = undoTop
          /\ redoStack' = redoStack /\ redoCount' = redoCount /\ redoTop' = redoTop
          /\ heap' = heap
          /\ \E p \in PaintPixels, c \in PaintColors : canvas' = [canvas EXCEPT ![p + 1] = c]]_vars

\* Every blob held by the store has the size its slot records, at most the cap.
StoreUnderCap ==
    \A i \in 0..(MAX_FRAMES - 1) :
        animStore[i].data # 0 =>
            /\ animStore[i].size <= ANIM_MAX_RLE_BYTES
            /\ Len(heap[animStore[i].data]) = animStore[i].size

\* C9: animCompressAndStore (here as called by animCommitFrame) stores the
\* compressed canvas only when it is within the cap and the block was
\* allocated; otherwise it returns false and the store is as before; no blob
\* larger than the cap is ever held.
C9_CompressAndStore ==
    /\ []StoreUnderCap
    /\ [][/\ last'.op = "commit" /\ steps' = steps + 1
            /\ (animFrameCount > 1 \/ animCurFrame > 0) =>
            /\ last'.ret = "false" => animStore' = animStore /\ heap' = heap
            /\ last'.ret = "true" =>
                  /\ rleCompress(canvas, FALSE, 0).ret <= ANIM_MAX_RLE_BYTES
                  /\ animStore'[animCurFrame].data # 0
                  /\ heap'[animStore'[animCurFrame].data] =
                        rleCompress(canvas, TRUE, rleCompress(canvas, FALSE, 0).ret).dst
                  /\ \A i \in 0..(MAX_FRAMES - 1) :
                        i # animCurFrame => animStore'[i] = animStore[i]]_vars

\* A commit refused because the canvas compresses to more than the cap.
C9_Witness ==
    /\ last.op = "commit"
    /\ animFrameCount > 1
    /\ last.ret = "false"
    /\ rleCompress(canvas, FALSE, 0).ret > ANIM_MAX_RLE_BYTES

\* C10: a frame switch whose commit fails changes nothing.
C10_FailedSyncChangesNothing ==
    [][last'.op = "sync" /\ last'.ret = "false" /\ steps' = steps + 1 =>
          /\ animCurFrame' = animCurFrame
          /\ canvas' = canvas
          /\ animFrameCount' = animFrameCount
          /\ animStore' = animStore
          /\ heap' = heap]_vars

\* A switch refused because the live canvas is over the cap.
C10_Witness ==
    /\ last.op = "sync"
    /\ last.ret = "false"
    /\ animFrameCount > 1
    /\ rleCompress(canvas, FALSE, 0).ret > ANIM_MAX_RLE_BYTES

\* The pixels of frame i: the canvas for the live frame, else what
\* animLoadFromStore(i) would put on the canvas.
FramePixels(s, i) ==
    IF i = s.animCurFrame THEN s.canvas ELSE animLoadFromStore(s, i).canvas

\* The per-frame pixel contents of the animation, frame 0 first.
AnimFrames == [i \in 0..(animFrameCount - 1) |-> FramePixels(Cur, i)]

\* The sequence f with the entry at from taken out and put back at to.
MovedFrames(f, from, to) ==
    [i \in DOMAIN f |->
        IF i = to THEN f[from]
        ELSE IF from < to /\ from <= i /\ i < to THEN f[i + 1]
        ELSE IF to < from /\ to < i /\ i <= from THEN f[i - 1]
        ELSE f[i]]

\* The sequence f with the entries at a and b exchanged.
SwappedFrames(f, a, b) ==
    [i \in DOMAIN f |-> IF i = a THEN f[b] ELSE IF i = b THEN f[a] ELSE f[i]]

\* The part of the state that holds the animation.
animState == <<canvas, animStore, heap, animFrameCount, animCurFrame>>

\* C11: animMoveFrame and animSwapFrames only permute the frames' pixel
\* contents, and change nothing when the live canvas cannot be committed.
\* The frame moved is the live one (animOpSrcFrame), and it is live at its
\* destination afterwards.
C11_MoveSwapPermute ==
    [][(last'.op \in {"move", "swap"} /\ steps' = steps + 1) =>
          /\ animFrameCount' = animFrameCount
          /\ last'.ret = "false" => animState' = animState
          /\ last'.ret # "false" =>
                AnimFrames' = IF last'.op = "move"
                              THEN MovedFrames(AnimFrames, animCurFrame, animCurFrame')
                              ELSE SwappedFrames(AnimFrames, animCurFrame, animCurFrame')]_vars

\* C12: saveCYD leaves the live canvas, animCurFrame, animFrameCount and the
\* pixel contents of every frame as they were, whatever the canvas holds and
\* whether or not the commit, the allocation or the opening of the file fails.
C12_SaveKeepsFrames ==
    [][(last'.op = "saveCYD" /\ steps' = steps + 1) =>
          /\ canvas' = canvas
          /\ animCurFrame' = animCurFrame
          /\ animFrameCount' = animFrameCount
          /\ AnimFrames' = AnimFrames]_vars

\* The undo and redo rings with the snapshots their slots point to.
History(s) ==
    [undoStack |-> s.undoStack, undoCount |-> s.undoCount, undoTop |-> s.undoTop,
     redoStack |-> s.redoStack, redoCount |-> s.redoCount, redoTop |-> s.redoTop,
     undoBlobs |-> [i \in 0..(UNDO_MAX_SLOTS - 1) |-> Blob(s, s.undoStack[i])],
     redoBlobs |-> [i \in 0..(UNDO_MAX_SLOTS - 1) |-> Blob(s, s.redoStack[i])]]

\* C13: starting playback, a playback tick and stopping playback leave the
\* undo and redo rings, and the snapshots in them, unchanged.
C13_PlaybackKeepsHistory ==
    [][(last'.op \in {"play", "tick", "stop"} /\ steps' = steps + 1) =>
          History(Cur)' = History(Cur)]_vars

\* A playback tick that showed another frame while the undo ring held a
\* snapshot.
C13_Witness ==
    /\ last.op = "tick"
    /\ undoCount > 0
    /\ animPlaying

\* C14: loadFile on a file whose magic is not 'BM', whose depth is not 24 or
\* whose width or height is not the canvas's leaves the canvas and the undo
\* and redo rings as they were.
C14_BadBmpChangesNothing ==
    [][(/\ last'.op = "loadFile"
        /\ last'.ret \in {"badmagic", "baddepth", "badsize"}
        /\ steps' = steps + 1) =>
          /\ canvas' = canvas
          /\ History(Cur)' = History(Cur)]_vars

\* The project in memory: the stored blobs, the frame count and cursor,
\* the playback rate and the per-frame delays.
Project(s) ==
    [blobs |-> [i \in 0..(MAX_FRAMES - 1) |-> Blob(s, s.animStore[i])],
     animFrameCount |-> s.animFrameCount, animCurFrame |-> s.animCurFrame,
     animFPS |-> s.animFPS, animFrameDelay |-> s.animFrameDelay]

\* C15: a loadCYD that does not end with the whole project loaded leaves the
\* canvas, the animation store, the frame count and cursor, the rate, the
\* delays and the undo and redo rings as they were before the call.
C15_FailedLoadChangesNothing ==
    [][(last'.op = "loadCYD" /\ steps' = steps + 1 /\ ~hist'.whole) =>
          /\ canvas' = canvas
          /\ Project(Cur)' = Project(Cur)
          /\ History(Cur)' = History(Cur)]_vars

\* No block is freed twice or read after being freed.
NoUB == ~ub

\* ------------------------------------------------------------------------
\* Codec harness: the codec applied to buffers and byte strings drawn from
\* bounded sets.
\* ------------------------------------------------------------------------
\* Buffers are built from at most MaxRuns runs of the lengths in RunLens, plus
\* every buffer of at most MaxSmall pixels, plus the program's own canvas size
\* in one colour.
MaxRuns == 3
MaxSmall == 3
RunLens == {1, RLE_MAX_RUN, RLE_MAX_RUN + 1}
RunColors == {C_WHITE, C_RED}

RECURSIVE Expand(_)
Expand(runs) ==
    IF runs = <<>> THEN <<>>
    ELSE Uniform(Head(runs)[1], Head(runs)[2]) \o Expand(Tail(runs))

RunLists == UNION {[1..k -> RunLens \X RunColors] : k \in 1..MaxRuns}
SmallBuffers == UNION {[1..k -> Colors] : k \in 1..MaxSmall}

\* The 200x200 canvas of the program (CANVAS_W, CANVAS_H of the source).
FULL_W == 200
FULL_H == 200
FullCanvas == Expand(<< <<FULL_W * FULL_H, C_RED>> >>)

RleSources == {Expand(r) : r \in RunLists} \cup SmallBuffers \cup {FullCanvas}

\* What the destination held before a decompress.
Garbage == {C_BLACK, C_RED}

\* Byte strings handed to rleDecompress, and the sizes of their destinations.
MaxBytes == 6
MaxRawPix == 3
ByteSet == {0, 1, 2, 255}
RawStrings == UNION {[1..k -> ByteSet] : k \in 0..MaxBytes}

RleInit ==
    /\ ProgramStart
    /\ heapOther = 0
    /\ tool = [pc |-> "idle"]
    /\ rle \in {[pc |-> "src", src |-> s] : s \in RleSources}
           \cup {[pc |-> "raw", bytes |-> b] : b \in RawStrings}

\* Dry run, then, unless it returned 0, the real run into a buffer of exactly
\* the dry-run size (the discipline of animCompressAndStore and undoPush).
RleEncoded(src) ==
    LET sz == rleCompress(src, FALSE, 0).ret
        real == rleCompress(src, TRUE, sz)
    IN  IF sz = 0 THEN [pc |-> "enc", src |-> src, sz |-> 0, ret |-> 0, bytes |-> <<>>]
        ELSE [pc |-> "enc", src |-> src, sz |-> sz, ret |-> real.ret, bytes |-> real.dst]

RleEncode ==
    /\ rle.pc = "src"
    /\ rle' = RleEncoded(rle.src)
    /\ UNCHANGED <<progVars, tool>>

\* Decompress the blob just produced into a destination holding garbage.
RleDecode ==
    /\ rle.pc = "enc"
    /\ \E g \in Garbage :
         LET r == rleDecompressFull(rle.bytes, rle.sz, Uniform(Len(rle.src), g))
         IN  rle' = [pc |-> "dec", src |-> rle.src, g |-> g, sz |-> rle.sz,
                     ret |-> rle.ret, bytes |-> rle.bytes, out |-> r.dst, oob |-> r.oob]
    /\ UNCHANGED <<progVars, tool>>

\* Decompress an arbitrary byte string into a destination holding garbage.
RleDecodeRaw ==
    /\ rle.pc = "raw"
    /\ \E n \in 1..MaxRawPix, g \in Garbage :
         LET r == rleDecompressFull(rle.bytes, Len(rle.bytes), Uniform(n, g))
         IN  rle' = [pc |-> "rawdone", bytes |-> rle.bytes, n |-> n, g |-> g,
                     out |-> r.dst, oob |-> r.oob]
    /\ UNCHANGED <<progVars, tool>>

RleNext == RleEncode \/ RleDecode \/ RleDecodeRaw

SpecRle == RleInit /\ [][RleNext]_vars

\* ------------------------------------------------------------------------
\* Codec properties
\* ------------------------------------------------------------------------

\* The records of a blob, as <<count, pixel>> pairs (complete records only).
Records(bytes) ==
    [j \in 1..(Len(bytes) \div 3) |->
        <<bytes[3 * j - 2], bytes[3 * j - 1] + 256 * bytes[3 * j]>>]

\* The sum of the counts of the records lo..hi.
RECURSIVE SumRange(_, _, _)
SumRange(recs, lo, hi) ==
    IF lo > hi THEN 0
    ELSE IF lo = hi THEN recs[lo][1]
    ELSE SumRange(recs, lo, (lo + hi) \div 2) + SumRange(recs, (lo + hi) \div 2 + 1, hi)

SumCounts(recs, j) == SumRange(recs, 1, j)

CeilDiv(a, b) == (a + b - 1) \div b

\* C5: decompressing the compression of a buffer gives the buffer back,
\* whatever the destination held before.
C5_RoundTrip == rle.pc = "dec" => rle.out = rle.src

C5_Witness ==
    /\ rle.pc = "dec"
    /\ Len(rle.src) > RLE_MAX_RUN
    /\ \E k \in 1..Len(rle.src) : rle.src[k] = C_RED /\ rle.g # C_RED
    /\ \E k \in 1..Len(rle.src) : rle.src[k] = C_WHITE
    /\ rle.out = rle.src

\* C6: the output is a whole number of 3-byte records, every count is in
\* 1..255, the counts sum to the number of pixels, two neighbouring records
\* carry the same colour only when the first is full (255), a one-colour
\* buffer of n pixels gives ceil(n/255) records, and the one-colour 200x200
\* canvas gives 157 records, 471 bytes.
C6_Records ==
    rle.pc = "enc" =>
        LET recs == Records(rle.bytes)
            k == Len(recs)
            n == Len(rle.src)
        IN  /\ Len(rle.bytes) = 3 * k
            /\ \A j \in 1..k : recs[j][1] \in 1..255
            /\ SumCounts(recs, k) = n
            /\ \A j \in 1..(k - 1) : recs[j][2] = recs[j + 1][2] => recs[j][1] = 255
            /\ (\A a \in 1..n : rle.src[a] = rle.src[1]) => k = CeilDiv(n, 255)
            /\ (n = FULL_W * FULL_H /\ \A a \in 1..n : rle.src[a] = rle.src[1]) =>
                  k = 157 /\ Len(rle.bytes) = 471

C6_Witness ==
    /\ rle.pc = "enc"
    /\ Len(rle.src) = FULL_W * FULL_H
    /\ Len(rle.bytes) = 471
    /\ Records(rle.bytes)[157] = <<FULL_W * FULL_H - 156 * RLE_MAX_RUN, C_RED>>

\* C7: the real run into a buffer of the dry-run size returns the dry-run size,
\* never 0, and writes exactly that many bytes (none at an offset >= sz).
C7_DryRunExact ==
    rle.pc = "enc" =>
        /\ rle.ret = rle.sz
        /\ rle.ret # 0
        /\ Len(rle.bytes) = rle.sz

C7_Witness ==
    /\ rle.pc = "enc"
    /\ rle.sz > 3
    /\ rle.ret = rle.sz
    /\ Len(rle.bytes) = rle.sz

\* What C8 says the destination pixel of 0-based index p is: the colour of the
\* first complete record whose run, laid end to end from 0, covers p, and
\* white when no record covers it.
C8_Expected(bytes, p) ==
    LET recs == Records(bytes)
        cover == {j \in 1..Len(recs) : SumCounts(recs, j - 1) <= p /\ p < SumCounts(recs, j)}
    IN  IF cover = {} THEN C_WHITE
        ELSE recs[CHOOSE j \in cover : \A i \in cover : j <= i][2]

\* C8: for every byte string, exactly the destination's pixels are written,
\* none beyond, with the records replayed in order, the last run clamped, a
\* partial record ignored and the rest white.
C8_DecodeTotal ==
    rle.pc = "rawdone" =>
        /\ ~rle.oob
        /\ Len(rle.out) = rle.n
        /\ \A p \in 0..(rle.n - 1) : rle.out[p + 1] = C8_Expected(rle.bytes, p)

\* A zero-count record, then a run of one pixel, and the rest of a
\* destination that held red padded white.
C8_Witness ==
    /\ rle.pc = "rawdone"
    /\ rle.bytes = <<0, 1, 2, 1, 0, 0>>
    /\ rle.n = 3
    /\ rle.g = C_RED
    /\ rle.out = <<C_BLACK, C_WHITE, C_WHITE>>


\* ------------------------------------------------------------------------
\* Flood fill
\* ------------------------------------------------------------------------
\* The canvas is held by rows here: cv[y + 1][x + 1] is canvasGet(x, y).

\* static Span q[800]
Q_SIZE == 800

\* patternCheck(x, y) under patternMode = mode
patternCheck(mode, x, y) ==
    CASE mode = 1 -> (x + y) % 2 = 0
      [] mode = 2 -> x % 3 = 0 /\ y % 3 = 0
      [] mode = 3 -> y % 3 = 0
      [] mode = 4 -> x % 3 = 0
      [] mode = 5 -> (x + y) % 4 = 0
      [] OTHER -> TRUE

\* colorDist565(a, b)
colorDist565(a, b) ==
    LET d(p, q) == IF p < q THEN q - p ELSE p - q
    IN  d((a \div 2048) % 32, (b \div 2048) % 32) + d((a \div 32) % 64, (b \div 32) % 64)
        + d(a % 32, b % 32)

\* colorMatch(a, b) under fillTolerance = tol
colorMatch(tol, a, b) == IF tol = 0 THEN a = b ELSE colorDist565(a, b) <= tol

\* The fill's locals and the canvas it works on, as one record st:
\*   cv, w, h            the canvas and its dimensions
\*   old, new, pat, second   oldColor, newColor, patternMode, secondColor
\*   tol                 fillTolerance
\*   hasVis, vis         visited != nullptr, and its bits by rows
\*   mark                the walk of wandSelect: pixels are only marked
\*   oob                 an index outside canvas[] has been read or written
\*   qn, q, head, tail   the span queue: its size, entries and indices
\*   y, lx, rx           the seed row and its span
\*   x1, x2, row, dy     the span popped last
\*   i, segL, xl, xr     the walk along that span
\*   kw, kq              4^kw >= w, 4^kq >= the most spans that can be pushed

\* The lambda fmatch
fmatch(st, px, py) ==
    /\ ~(st.hasVis /\ st.vis[py + 1][px + 1])
    /\ colorMatch(st.tol, st.cv[py + 1][px + 1], st.old)

\* The lambda fpaint
fpaint(st, px, py) ==
    [st EXCEPT !.cv[py + 1][px + 1] =
                  IF st.mark THEN @
                  ELSE IF st.pat > 0 /\ ~patternCheck(st.pat, px, py) THEN st.second
                  ELSE st.new,
               !.vis = IF st.hasVis THEN [@ EXCEPT ![py + 1][px + 1] = TRUE] ELSE @]

\* Q_PUSH(a, b, r, d): no test for a full queue
Q_PUSH(st, a, b, r, d) ==
    [st EXCEPT !.q[st.tail] = <<a, b, r, d>>, !.tail = (st.tail + 1) % st.qn]

\* canvasGet(px, py) or canvasSet(px, py, c): oob is set when the index
\* py * CANVAS_W + px is outside canvas[].
fillTouch(st, px, py) ==
    [st EXCEPT !.oob = @ \/ py * st.w + px < 0 \/ py * st.w + px >= st.w * st.h]

\* The pixel the condition of a loop reads once the tests before the read
\* have passed.
fillProbe(st, lp) ==
    CASE lp = "seedLeft"  -> IF st.lx > 0 THEN fillTouch(st, st.lx - 1, st.y) ELSE st
      [] lp = "seedRight" -> IF st.rx < st.w - 1 THEN fillTouch(st, st.rx + 1, st.y) ELSE st
      [] lp = "seedPaint" -> IF st.i <= st.rx THEN fillTouch(st, st.i, st.y) ELSE st
      [] lp = "segment"   -> IF st.i <= st.x2 THEN fillTouch(st, st.i, st.row) ELSE st
      [] lp = "left"      -> IF st.xl > 0 THEN fillTouch(st, st.xl - 1, st.row) ELSE st
      [] lp = "right"     -> IF st.xr < st.w - 1 THEN fillTouch(st, st.xr + 1, st.row) ELSE st

\* The conditions of floodFill's loops that hold no other loop.
fillCond(st, lp) ==
    CASE lp = "seedLeft"  -> st.lx > 0 /\ fmatch(st, st.lx - 1, st.y)
      [] lp = "seedRight" -> st.rx < st.w - 1 /\ fmatch(st, st.rx + 1, st.y)
      [] lp = "seedPaint" -> st.i <= st.rx
      [] lp = "segment"   -> st.i <= st.x2 /\ fmatch(st, st.i, st.row)
      [] lp = "left"      -> st.xl > 0 /\ fmatch(st, st.xl - 1, st.row)
      [] lp = "right"     -> st.xr < st.w - 1 /\ fmatch(st, st.xr + 1, st.row)

\* The bodies of those loops.
fillBody(st, lp) ==
    CASE lp = "seedLeft"  -> [st EXCEPT !.lx = st.lx - 1]
      [] lp = "seedRight" -> [st EXCEPT !.rx = st.rx + 1]
      [] lp = "seedPaint" -> [fpaint(st, st.i, st.y) EXCEPT !.i = st.i + 1]
      [] lp = "segment"   -> [fpaint(st, st.i, st.row) EXCEPT !.i = st.i + 1]
      [] lp = "left"      -> [fpaint(st, st.xl - 1, st.row) EXCEPT !.xl = st.xl - 1]
      [] lp = "right"     -> [fpaint(st, st.xr + 1, st.row) EXCEPT !.xr = st.xr + 1]

\* while (cond) body, for at most 4^k rounds.
RECURSIVE fillWhile(_, _, _)
fillWhile(st, lp, k) ==
    IF ~fillCond(st, lp) THEN fillProbe(st, lp)
    ELSE IF k = 0 THEN fillBody(fillProbe(st, lp), lp)
    ELSE LET q1 == fillWhile(st, lp, k - 1)
             q2 == fillWhile(q1, lp, k - 1)
             q3 == fillWhile(q2, lp, k - 1)
             q4 == fillWhile(q3, lp, k - 1)
         IN  <<q1, q2, q3, q4>>[4]

\* The two pushes that end the handling of a segment xl..xr of the span.
fillPushSame(st) ==
    IF st.row + st.dy >= 0 /\ st.row + st.dy < st.h
    THEN Q_PUSH(st, st.xl, st.xr, st.row + st.dy, st.dy) ELSE st

fillPushOpposite(st) ==
    IF /\ st.row - st.dy >= 0 /\ st.row - st.dy < st.h
       /\ (st.xl < st.x1 \/ st.xr > st.x2)
    THEN Q_PUSH(st, st.xl, st.xr, st.row - st.dy, -st.dy) ELSE st

\* One segment of the walk: painted from i on, widened to both sides, its
\* neighbour rows pushed.
fillSegStart(st) == [st EXCEPT !.segL = st.i]

fillSegEnd(st) == [st EXCEPT !.xl = st.segL, !.xr = st.i - 1]

fillSegment(st) ==
    fillPushOpposite(fillPushSame(
        fillWhile(fillWhile(fillSegEnd(fillWhile(fillSegStart(st), "segment", st.kw)),
                            "left", st.kw),
                  "right", st.kw)))

\* The walk along the span popped last: while (i <= x2), for at most 4^k
\* rounds; a pixel that does not match is stepped over, one that does starts
\* a segment.
RECURSIVE fillWalk(_, _)
fillWalk(st, k) ==
    IF ~(st.i <= st.x2) THEN st
    ELSE IF k = 0 THEN IF ~fmatch(st, st.i, st.row)
                       THEN [fillTouch(st, st.i, st.row) EXCEPT !.i = st.i + 1]
                       ELSE fillSegment(fillTouch(st, st.i, st.row))
    ELSE LET q1 == fillWalk(st, k - 1)
             q2 == fillWalk(q1, k - 1)
             q3 == fillWalk(q2, k - 1)
             q4 == fillWalk(q3, k - 1)
         IN  <<q1, q2, q3, q4>>[4]

\* Q_POP(s); int i = s.x1;
Q_POP(st) ==
    [st EXCEPT !.x1 = st.q[st.head][1], !.x2 = st.q[st.head][2],
               !.row = st.q[st.head][3], !.dy = st.q[st.head][4],
               !.i = st.q[st.head][1],
               !.head = (st.head + 1) % st.qn]

\* Q_POP(s), then the walk along s.
fillPop(st) == fillWalk(Q_POP(st), st.kw)

\* while (!Q_EMPTY()), for at most 4^k spans.
RECURSIVE fillQueue(_, _)
fillQueue(st, k) ==
    IF ~(st.head # st.tail) THEN st
    ELSE IF k = 0 THEN fillPop(st)
    ELSE LET q1 == fillQueue(st, k - 1)
             q2 == fillQueue(q1, k - 1)
             q3 == fillQueue(q2, k - 1)
             q4 == fillQueue(q3, k - 1)
         IN  <<q1, q2, q3, q4>>[4]

\* The seed's span found and painted, its neighbour rows pushed.
fillSeedSpan(st) == [st EXCEPT !.i = st.lx]

fillSeedUp(st) == IF st.y > 0 THEN Q_PUSH(st, st.lx, st.rx, st.y - 1, -1) ELSE st

fillSeedDown(st) == IF st.y < st.h - 1 THEN Q_PUSH(st, st.lx, st.rx, st.y + 1, 1) ELSE st

fillSeed(st) ==
    fillSeedDown(fillSeedUp(
        fillWhile(fillSeedSpan(fillWhile(fillWhile(st, "seedLeft", st.kw),
                                         "seedRight", st.kw)),
                  "seedPaint", st.kw)))

\* The locals as floodFill sets them before its first loop.
fillStart(cv, w, h, x, y, newColor, pat, second, tol, hasVis, mark) ==
    [cv |-> cv, w |-> w, h |-> h, old |-> cv[y + 1][x + 1], new |-> newColor,
     pat |-> pat, second |-> second, tol |-> tol, hasVis |-> hasVis,
     vis |-> IF hasVis THEN [r \in 1..h |-> [c \in 1..w |-> FALSE]] ELSE <<>>,
     mark |-> mark, oob |-> FALSE,
     qn |-> Q_SIZE, q |-> [j \in 0..(Q_SIZE - 1) |-> <<0, 0, 0, 0>>],
     head |-> 0, tail |-> 0,
     y |-> y, lx |-> x, rx |-> x, x1 |-> 0, x2 |-> 0, row |-> 0, dy |-> 0,
     i |-> 0, segL |-> 0, xl |-> 0, xr |-> 0,
     kw |-> Log4Up(w), kq |-> Log4Up(4 * w * h + 4)]

\* floodFill from the seed's span on; "spin" when the queue loop has not
\* ended after 4^kq spans.
fillEnd(st) ==
    [cv |-> st.cv, vis |-> st.vis, oob |-> st.oob,
     ret |-> IF st.head # st.tail THEN "spin" ELSE "done"]

fillRun(st) == fillEnd(fillQueue(fillSeed(st), st.kq))

\* floodFill(x, y, newColor) on the canvas cv of w by h pixels; okVis tells
\* whether the calloc of the visited bitmap succeeds when it is asked for.
floodFill(cv, w, h, x, y, newColor, pat, second, tol, okVis) ==
    IF x < 0 \/ x >= w \/ y < 0 \/ y >= h THEN [cv |-> cv, oob |-> FALSE, ret |-> "outside"]
    ELSE IF tol = 0 /\ cv[y + 1][x + 1] = newColor THEN [cv |-> cv, oob |-> FALSE, ret |-> "same"]
    ELSE fillRun(fillStart(cv, w, h, x, y, newColor, pat, second, tol,
                           tol > 0 /\ okVis, FALSE))


\* Fill inputs: the white canvases of FillW by FillH pixels with black ink on
\* any of the first FillInk pixels, with every seed, and the full-size comb.
FillW == CANVAS_W + 1
FillH == CANVAS_H + 1
FillInk == 9
FillModes == {0, 1, 3}
FillCanvases ==
    {[y \in 1..FillH |-> [x \in 1..FillW |->
         IF (y - 1) * FillW + x \in ink THEN C_BLACK ELSE C_WHITE]] :
        ink \in SUBSET (1..Min(FillInk, FillW * FillH))}

\* The comb: a white spine in the last column, white rows at growing
\* distances from the seed row 100, and below (above) each of them white
\* teeth in the even columns that hang towards the seed row.
CombFull == {3, 6, 12, 25, 50, 150, 175, 188, 194, 197}
CombTeeth ==
    (4..4) \cup (7..10) \cup (13..23) \cup (26..48) \cup (51..99) \cup
    (101..149) \cup (152..174) \cup (177..187) \cup (190..193) \cup (196..196)
CombCanvas ==
    [y \in 1..FULL_H |-> [x \in 1..FULL_W |->
        IF \/ x = FULL_W
           \/ y - 1 \in CombFull
           \/ (y - 1 \in CombTeeth /\ (x - 1) % 2 = 0 /\ x < FULL_W - 2)
        THEN C_WHITE ELSE C_RED]]

FillInputs ==
    {[pc |-> "fill", cv |-> cv, w |-> FillW, h |-> FillH, x |-> x, y |-> y,
      c |-> c, pat |-> m, second |-> C_WHITE, tol |-> 0, okVis |-> TRUE] :
        cv \in FillCanvases,
        x \in 0..(FillW - 1), y \in 0..(FillH - 1),
        c \in {C_BLACK, C_RED}, m \in FillModes}
    \cup
    {[pc |-> "fill", cv |-> CombCanvas, w |-> FULL_W, h |-> FULL_H,
      x |-> FULL_W - 1, y |-> 100, c |-> C_BLACK, pat |-> 0, second |-> C_WHITE,
      tol |-> 0, okVis |-> TRUE]}

FillInit ==
    /\ ProgramStart
    /\ heapOther = 0
    /\ rle = [pc |-> "idle"]
    /\ tool \in FillInputs

\* The bucket tool: floodFill(cx, cy, activeColor).
FilledAs(t, r) ==
    [pc |-> "filled", cv |-> t.cv, w |-> t.w, h |-> t.h, x |-> t.x, y |-> t.y,
     c |-> t.c, pat |-> t.pat, second |-> t.second, tol |-> t.tol, okVis |-> t.okVis,
     out |-> r.cv, ret |-> r.ret]

Filled(t) ==
    FilledAs(t, floodFill(t.cv, t.w, t.h, t.x, t.y, t.c, t.pat, t.second, t.tol, t.okVis))

\* The same tap again.
RefilledAs(t, r) ==
    [pc |-> "refilled", cv |-> t.cv, w |-> t.w, h |-> t.h, x |-> t.x, y |-> t.y,
     c |-> t.c, pat |-> t.pat, second |-> t.second, tol |-> t.tol, okVis |-> t.okVis,
     out |-> t.out, ret |-> t.ret,
     out2 |-> r.cv, ret2 |-> r.ret]

Refilled(t) ==
    RefilledAs(t, floodFill(t.out, t.w, t.h, t.x, t.y, t.c, t.pat, t.second, t.tol, t.okVis))

FillOnce ==
    /\ tool.pc = "fill"
    /\ tool' = Filled(tool)
    /\ UNCHANGED <<progVars, rle>>

FillTwice ==
    /\ tool.pc = "filled"
    /\ tool' = Refilled(tool)
    /\ UNCHANGED <<progVars, rle>>

FillNext == FillOnce \/ FillTwice

SpecFill == FillInit /\ [][FillNext]_vars

\* ------------------------------------------------------------------------
\* Flood fill properties
\* ------------------------------------------------------------------------

\* The pixels next to pixel <<x, y>> on a canvas of w by h pixels.
Neighbours(p, w, h) ==
    {n \in {<<p[1] - 1, p[2]>>, <<p[1] + 1, p[2]>>, <<p[1], p[2] - 1>>, <<p[1], p[2] + 1>>} :
        n[1] >= 0 /\ n[1] < w /\ n[2] >= 0 /\ n[2] < h}

\* The pixels of colour old that a path of such pixels joins to the set got.
RECURSIVE Grow(_, _, _, _, _)
Grow(cv, w, h, old, got) ==
    LET more == {n \in UNION {Neighbours(p, w, h) : p \in got} :
                    cv[n[2] + 1][n[1] + 1] = old} \ got
    IN  IF more = {} THEN got ELSE Grow(cv, w, h, old, got \cup more)

\* The 4-connected component of the seed.
Component(t) == Grow(t.cv, t.w, t.h, t.cv[t.y + 1][t.x + 1], {<<t.x, t.y>>})

\* Where the first fill changed a pixel.
Painted(t) ==
    {p \in (0..(t.w - 1)) \X (0..(t.h - 1)) : t.out[p[2] + 1][p[1] + 1] # t.cv[p[2] + 1][p[1] + 1]}

\* C17: with no pattern and a colour other than the seed's, the fill
\* recolours exactly the seed's 4-connected component: no old-coloured
\* neighbour of a recoloured pixel is left, every pixel of the component has
\* the new colour, and no other pixel changes.
C17_FillsComponent ==
    (tool.pc = "filled" /\ tool.pat = 0 /\ tool.ret = "done") =>
        /\ \A p \in Painted(tool) : \A n \in Neighbours(p, tool.w, tool.h) :
               tool.cv[n[2] + 1][n[1] + 1] = tool.cv[tool.y + 1][tool.x + 1]
                   => tool.out[n[2] + 1][n[1] + 1] = tool.c
        /\ tool.out = [y \in 1..tool.h |-> [x \in 1..tool.w |->
                          IF <<x - 1, y - 1>> \in Component(tool)
                          THEN tool.c ELSE tool.cv[y][x]]]

\* C16: the fill is idempotent for every patternMode: a fill whose seed
\* already has the colour changes no pixel, and after a fill that returned,
\* the same fill again returns and changes no pixel.
C16_FillIdempotent ==
    /\ (tool.pc = "filled" /\ tool.cv[tool.y + 1][tool.x + 1] = tool.c) =>
           tool.out = tool.cv
    /\ (tool.pc = "refilled" /\ tool.ret # "spin") =>
           tool.ret2 # "spin" /\ tool.out2 = tool.out


\* ------------------------------------------------------------------------
\* Brush stamps and mirroring (pen and eraser; canvas held by rows)
\* ------------------------------------------------------------------------

\* The brush state as one record st: cv, w, h the canvas; color the draw
\* colour; brush, pat, mirrorX, mirrorY the settings; stamps the centres
\* stampBrushAt was called with, in order.

\* int r = max(0, (int)brushSize - 1)
brushRadius(b) == IF b > 1 THEN b - 1 ELSE 0

\* stampBrushAt(cx, cy, color, ...), pen or eraser: the filled circle of
\* radius max(0, brushSize - 1), clipped to the canvas, under the pattern.
stampBrushAt(st, cx, cy) ==
    [st EXCEPT
        !.cv = [y \in 1..st.h |-> [x \in 1..st.w |->
                   IF /\ (x - 1 - cx) * (x - 1 - cx) + (y - 1 - cy) * (y - 1 - cy)
                            <= brushRadius(st.brush) * brushRadius(st.brush)
                      /\ patternCheck(st.pat, x - 1, y - 1)
                   THEN st.color ELSE st.cv[y][x]]],
        !.stamps = Append(st.stamps, <<cx, cy>>)]

\* A stamp that leaves out the copy mirrored in both axes.
stampMirrored_NoDiagonal(st, cx, cy) ==
    LET a == stampBrushAt(st, cx, cy)
        b == IF st.mirrorX THEN stampBrushAt(a, st.w - 1 - cx, cy) ELSE a
    IN  IF st.mirrorY THEN stampBrushAt(b, cx, st.h - 1 - cy) ELSE b

\* stampMirrored(cx, cy, color, ...)
stampMirrored(st, cx, cy) ==
    LET a == stampBrushAt(st, cx, cy)
        b == IF st.mirrorX THEN stampBrushAt(a, st.w - 1 - cx, cy) ELSE a
        c == IF st.mirrorY THEN stampBrushAt(b, cx, st.h - 1 - cy) ELSE b
    IN  IF st.mirrorX /\ st.mirrorY
        THEN stampBrushAt(c, st.w - 1 - cx, st.h - 1 - cy) ELSE c

\* constrain(v, lo, hi)
constrain(v, lo, hi) == IF v < lo THEN lo ELSE IF v > hi THEN hi ELSE v

Abs(v) == IF v < 0 THEN -v ELSE v

\* The loop of the lambda walkLine, at (cx, cy) with error term err;
\* dx = abs(ax1 - ax0), dy = -abs(ay1 - ay0).
RECURSIVE walkLoop(_, _, _, _, _, _, _, _, _, _)
walkLoop(st, cx, cy, err, ax1, ay1, dx, dy, sx, sy) ==
    LET a == stampBrushAt(st, constrain(cx, 0, st.w - 1), constrain(cy, 0, st.h - 1))
    IN  IF cx = ax1 /\ cy = ay1 THEN a
        ELSE walkLoop(a,
                      IF 2 * err >= dy THEN cx + sx ELSE cx,
                      IF 2 * err <= dx THEN cy + sy ELSE cy,
                      err + (IF 2 * err >= dy THEN dy ELSE 0)
                          + (IF 2 * err <= dx THEN dx ELSE 0),
                      ax1, ay1, dx, dy, sx, sy)

\* The lambda walkLine(ax0, ay0, ax1, ay1)
walkLine(st, ax0, ay0, ax1, ay1) ==
    walkLoop(st, ax0, ay0, Abs(ax1 - ax0) - Abs(ay1 - ay0), ax1, ay1,
             Abs(ax1 - ax0), -Abs(ay1 - ay0),
             IF ax0 < ax1 THEN 1 ELSE -1, IF ay0 < ay1 THEN 1 ELSE -1)

\* toolApplyLine(x0, y0, x1, y1)
toolApplyLine(st, x0, y0, x1, y1) ==
    LET a == walkLine(st, x0, y0, x1, y1)
        b == IF st.mirrorX
             THEN walkLine(a, st.w - 1 - x0, y0, st.w - 1 - x1, y1) ELSE a
        c == IF st.mirrorY
             THEN walkLine(b, x0, st.h - 1 - y0, x1, st.h - 1 - y1) ELSE b
    IN  IF st.mirrorX /\ st.mirrorY
        THEN walkLine(c, st.w - 1 - x0, st.h - 1 - y0, st.w - 1 - x1, st.h - 1 - y1)
        ELSE c


\* Stamp inputs: a white canvas of StampW by StampH pixels, every point and
\* every pair of points on it, every mirror setting; and the full-size
\* canvas with the default brush stamped at (5, 5) under both mirrors.
StampW == CANVAS_W + 2
StampH == CANVAS_H + 1
MaxBrush == 2

Brush(w, h, b, pat, mx, my) ==
    [cv |-> [y \in 1..h |-> [x \in 1..w |-> C_WHITE]], w |-> w, h |-> h,
     color |-> C_BLACK, brush |-> b, pat |-> pat, mirrorX |-> mx, mirrorY |-> my,
     stamps |-> <<>>]

StampInputs ==
    {[pc |-> pc, in |-> Brush(StampW, StampH, b, pat, mx, my),
      x0 |-> x0, y0 |-> y0, x1 |-> x1, y1 |-> y1] :
        pc \in {"stamp", "line"}, b \in 1..MaxBrush, pat \in {0, 1},
        mx \in BOOLEAN, my \in BOOLEAN,
        x0 \in 0..(StampW - 1), y0 \in 0..(StampH - 1),
        x1 \in 0..(StampW - 1), y1 \in 0..(StampH - 1)}
    \cup
    {[pc |-> "stamp", in |-> Brush(FULL_W, FULL_H, 3, 0, TRUE, TRUE),
      x0 |-> 5, y0 |-> 5, x1 |-> 5, y1 |-> 5]}

StampInit ==
    /\ ProgramStart
    /\ heapOther = 0
    /\ rle = [pc |-> "idle"]
    /\ tool \in {t \in StampInputs : t.pc = "stamp" => (t.x0 = t.x1 /\ t.y0 = t.y1)}

\* toolApply(cx, cy) with the pen: the first sample of a stroke.
StampPoint ==
    /\ tool.pc = "stamp"
    /\ tool' = [pc |-> "stamped", in |-> tool.in, x0 |-> tool.x0, y0 |-> tool.y0,
                x1 |-> tool.x1, y1 |-> tool.y1,
                out |-> stampMirrored(tool.in, tool.x1, tool.y1)]
    /\ UNCHANGED <<progVars, rle>>

\* toolApplyLine(lastDrawX, lastDrawY, cx, cy): a later sample of the stroke.
StampLine ==
    /\ tool.pc = "line"
    /\ tool' = [pc |-> "lined", in |-> tool.in, x0 |-> tool.x0, y0 |-> tool.y0,
                x1 |-> tool.x1, y1 |-> tool.y1,
                out |-> toolApplyLine(tool.in, tool.x0, tool.y0, tool.x1, tool.y1)]
    /\ UNCHANGED <<progVars, rle>>

StampNext == StampPoint \/ StampLine

SpecStamp == StampInit /\ [][StampNext]_vars

\* ------------------------------------------------------------------------
\* Mirroring properties
\* ------------------------------------------------------------------------

\* The points pts, then their images in the vertical centre line, in the
\* horizontal centre line and in both, as the settings of st ask.
MirrorImages(st, pts) ==
    pts
    \o (IF st.mirrorX
        THEN [k \in 1..Len(pts) |-> <<st.w - 1 - pts[k][1], pts[k][2]>>] ELSE <<>>)
    \o (IF st.mirrorY
        THEN [k \in 1..Len(pts) |-> <<pts[k][1], st.h - 1 - pts[k][2]>>] ELSE <<>>)
    \o (IF st.mirrorX /\ st.mirrorY
        THEN [k \in 1..Len(pts) |-> <<st.w - 1 - pts[k][1], st.h - 1 - pts[k][2]>>]
        ELSE <<>>)

\* The canvas of st after brush stamps at the centres cs.
StampedAt(st, cs) ==
    [y \in 1..st.h |-> [x \in 1..st.w |->
        IF /\ patternCheck(st.pat, x - 1, y - 1)
           /\ \E k \in 1..Len(cs) :
                 (x - 1 - cs[k][1]) * (x - 1 - cs[k][1])
                   + (y - 1 - cs[k][2]) * (y - 1 - cs[k][2])
                 <= brushRadius(st.brush) * brushRadius(st.brush)
        THEN st.color ELSE st.cv[y][x]]]

\* The points of the segment (x0, y0)-(x1, y1): what the walk stamps.
SegmentPoints(t) == walkLine(t.in, t.x0, t.y0, t.x1, t.y1).stamps

\* C18: a stamp at (x, y) is applied there and at its mirror images as the
\* mirror settings ask, 1, 2 or 4 stamps in all; on 200 by 200 with both
\* mirrors a stamp at (5, 5) also stamps at (194, 5), (5, 194), (194, 194);
\* a stroke segment stamps every one of its points and their mirror images.
C18_Mirrored ==
    /\ tool.pc = "stamped" =>
          /\ tool.out.stamps = MirrorImages(tool.in, <<(<<tool.x1, tool.y1>>)>>)
          /\ Len(tool.out.stamps) \in {1, 2, 4}
          /\ tool.out.cv = StampedAt(tool.in, tool.out.stamps)
          /\ (tool.in.w = FULL_W /\ tool.in.h = FULL_H) =>
                tool.out.stamps = <<(<<5, 5>>), (<<194, 5>>), (<<5, 194>>), (<<194, 194>>)>>
    /\ tool.pc = "lined" =>
          /\ tool.out.stamps = MirrorImages(tool.in, SegmentPoints(tool))
          /\ tool.out.cv = StampedAt(tool.in, tool.out.stamps)

C18_Witness ==
    /\ tool.pc = "lined"
    /\ tool.in.mirrorX /\ tool.in.mirrorY
    /\ tool.x1 - tool.x0 = 3 /\ tool.y1 - tool.y0 = 2
    /\ Len(tool.out.stamps) = 16
    /\ tool.out.stamps[5] = <<StampW - 1 - tool.x0, tool.y0>>
    /\ tool.out.stamps[16] = <<StampW - 1 - tool.x1, StampH - 1 - tool.y1>>


\* ------------------------------------------------------------------------
\* Selection: capture, rotate, place (canvas held by rows)
\* ------------------------------------------------------------------------

\* The selection state as one record st:
\*   cv, w, h                    the canvas
\*   selX1, selY1, selX2, selY2  the selected box
\*   selW, selH, selCutMode, selPhase
\*   hasBuf, selBuf              selBuf != nullptr, and its pixels (0-based k at k + 1)
\*   hasMask, selMask            selMask != nullptr, and its bytes
\*   blocks                      heap blocks allocated by the selection code
\*                               and not freed

\* 1 << k
Bit(k) == 2 ^ k

\* Pointers set to null with their blocks still allocated.
selRelease_Forget(st) ==
    [st EXCEPT !.hasBuf = FALSE, !.selBuf = <<>>, !.hasMask = FALSE, !.selMask = <<>>]

\* if (selBuf) { free(selBuf); selBuf = nullptr; }
\* if (selMask) { free(selMask); selMask = nullptr; }
selRelease(st) ==
    [st EXCEPT !.hasBuf = FALSE, !.selBuf = <<>>, !.hasMask = FALSE, !.selMask = <<>>,
               !.blocks = @ - (IF st.hasBuf THEN 1 ELSE 0) - (IF st.hasMask THEN 1 ELSE 0)]

\* selCancel()
selCancel(st) ==
    [selRelease(st) EXCEPT !.selPhase = "SEL_NONE", !.selW = 0, !.selH = 0]

\* selMaskGet(x, y)
selMaskGet(st, x, y) ==
    IF ~st.hasMask \/ x < 0 \/ x >= st.selW \/ y < 0 \/ y >= st.selH THEN FALSE
    ELSE (st.selMask[((y * st.selW + x) \div 8) + 1] \div Bit((y * st.selW + x) % 8)) % 2 = 1

\* selMaskSet(mask, w, x, y)
selMaskSet(mask, w, x, y) ==
    IF (mask[((y * w + x) \div 8) + 1] \div Bit((y * w + x) % 8)) % 2 = 1 THEN mask
    ELSE [mask EXCEPT ![((y * w + x) \div 8) + 1] = @ + Bit((y * w + x) % 8)]

\* A capture that copies the box and leaves the source as it is.
selCaptureSized_Copy(st, ok1, ok2) ==
    IF ~ok1 THEN Ret(selCancel(st), "nomem")
    ELSE IF ~ok2 THEN Ret(selCancel([st EXCEPT !.hasBuf = TRUE, !.blocks = @ + 1]), "nomem")
    ELSE [st EXCEPT
            !.blocks = @ + 2,
            !.hasBuf = TRUE,
            !.selBuf = [k \in 1..(st.selW * st.selH) |->
                           st.cv[st.selY1 + ((k - 1) \div st.selW) + 1]
                                [st.selX1 + ((k - 1) % st.selW) + 1]],
            !.hasMask = TRUE,
            !.selMask = [b \in 1..((st.selW * st.selH + 7) \div 8) |-> 255],
            !.ret = "captured"]

\* selCaptureRect() from the allocations on; ok1 and ok2 tell whether the
\* malloc of selBuf and of selMask succeeded.
selCaptureSized(st, ok1, ok2) ==
    IF ~ok1 THEN Ret(selCancel(st), "nomem")
    ELSE IF ~ok2 THEN Ret(selCancel([st EXCEPT !.hasBuf = TRUE, !.blocks = @ + 1]), "nomem")
    ELSE [st EXCEPT
            !.blocks = @ + 2,
            !.hasBuf = TRUE,
            !.selBuf = [k \in 1..(st.selW * st.selH) |->
                           st.cv[st.selY1 + ((k - 1) \div st.selW) + 1]
                                [st.selX1 + ((k - 1) % st.selW) + 1]],
            !.hasMask = TRUE,
            !.selMask = [b \in 1..((st.selW * st.selH + 7) \div 8) |-> 255],
            !.cv = IF ~st.selCutMode THEN st.cv
                   ELSE [y \in 1..st.h |-> [x \in 1..st.w |->
                            IF /\ y - 1 >= st.selY1 /\ y - 1 <= st.selY2
                               /\ x - 1 >= st.selX1 /\ x - 1 <= st.selX2
                            THEN C_WHITE ELSE st.cv[y][x]]],
            !.ret = "captured"]

\* selCaptureRect()
selCaptureRect(st, ok1, ok2) ==
    IF st.selX2 - st.selX1 + 1 <= 0 \/ st.selY2 - st.selY1 + 1 <= 0
    THEN Ret(selCancel(st), "empty")
    ELSE selCaptureSized([selRelease(st) EXCEPT !.selW = st.selX2 - st.selX1 + 1,
                                               !.selH = st.selY2 - st.selY1 + 1],
                         ok1, ok2)

\* selPlace(destX, destY)
selPlace(st, destX, destY) ==
    IF ~st.hasBuf \/ st.selW <= 0 \/ st.selH <= 0 THEN Ret(selCancel(st), "none")
    ELSE Ret(selCancel(
             [st EXCEPT !.cv = [y \in 1..st.h |-> [x \in 1..st.w |->
                 IF /\ x - 1 - destX >= 0 /\ x - 1 - destX < st.selW
                    /\ y - 1 - destY >= 0 /\ y - 1 - destY < st.selH
                    /\ (st.hasMask => selMaskGet(st, x - 1 - destX, y - 1 - destY))
                 THEN st.selBuf[(y - 1 - destY) * st.selW + (x - 1 - destX) + 1]
                 ELSE st.cv[y][x]]]]),
             "placed")

\* A rotation that turns the other way.
selRotateStep_Counter(st, nb, k) ==
    [buf |-> [nb.buf EXCEPT ![(st.selW - 1 - (k % st.selW)) * st.selH + (k \div st.selW) + 1] =
                               st.selBuf[k + 1]],
     mask |-> IF st.hasMask /\ selMaskGet(st, k % st.selW, k \div st.selW)
              THEN selMaskSet(nb.mask, st.selH, k \div st.selW, st.selW - 1 - (k % st.selW))
              ELSE nb.mask]

\* One round of selRotate90's loops, at x = k % selW, y = k / selW, writing
\* to newBuf and newMask (nb): nx = selH - 1 - y, ny = x, newW = selH.
selRotateStep(st, nb, k) ==
    [buf |-> [nb.buf EXCEPT ![(k % st.selW) * st.selH + (st.selH - 1 - (k \div st.selW)) + 1] =
                               st.selBuf[k + 1]],
     mask |-> IF st.hasMask /\ selMaskGet(st, k % st.selW, k \div st.selW)
              THEN selMaskSet(nb.mask, st.selH, st.selH - 1 - (k \div st.selW), k % st.selW)
              ELSE nb.mask]

RECURSIVE selRotateLoop(_, _, _)
selRotateLoop(st, nb, k) ==
    IF k >= st.selW * st.selH THEN nb
    ELSE selRotateLoop(st, selRotateStep(st, nb, k), k + 1)

\* selRotate90() after both allocations; g is what malloc left in newBuf.
selRotated(st, g) ==
    LET nb == selRotateLoop(st,
                  [buf |-> [k \in 1..(st.selW * st.selH) |-> g],
                   mask |-> [b \in 1..((st.selW * st.selH + 7) \div 8) |-> 0]], 0)
    IN  [st EXCEPT !.selBuf = nb.buf,
                   !.selMask = IF st.hasMask THEN nb.mask ELSE st.selMask,
                   !.selW = st.selH, !.selH = st.selW,
                   !.selX2 = st.selX1 + st.selH - 1,
                   !.selY2 = st.selY1 + st.selW - 1,
                   !.ret = "rotated"]

\* selRotate90(); ok1 and ok2 tell whether the malloc of newBuf and the
\* calloc of newMask succeeded.
selRotate90(st, ok1, ok2, g) ==
    IF ~st.hasBuf \/ st.selW <= 0 \/ st.selH <= 0 THEN Ret(st, "none")
    ELSE IF ~ok1 THEN Ret(st, "nomem")
    ELSE IF st.hasMask /\ ~ok2 THEN Ret(st, "nomem")
    ELSE selRotated(st, g)


\* Selection inputs: a canvas of SelW by SelH pixels, every pixel of its own
\* colour (none of them white), with every box on it about to be captured in
\* cut or copy mode; and lasso selections already held, whose box starts at
\* (0, 0) and covers at most MaxMaskBits pixels, with every mask of two or
\* more pixels.
SelW == CANVAS_W + 1
SelH == CANVAS_H + 1
MaxMaskBits == 6

SelCanvas == [y \in 1..SelH |-> [x \in 1..SelW |-> (y - 1) * SelW + x]]

RECURSIVE SumBits(_)
SumBits(S) == IF S = {} THEN 0
              ELSE LET k == CHOOSE k \in S : TRUE IN Bit(k) + SumBits(S \ {k})

SelBoxed(x1, y1, x2, y2, cut) ==
    [cv |-> SelCanvas, w |-> SelW, h |-> SelH,
     selX1 |-> x1, selY1 |-> y1, selX2 |-> x2, selY2 |-> y2,
     selW |-> 0, selH |-> 0, selCutMode |-> cut, selPhase |-> "SEL_CORNER2",
     hasBuf |-> FALSE, selBuf |-> <<>>, hasMask |-> FALSE, selMask |-> <<>>,
     blocks |-> 0, ret |-> "none"]

\* What selCaptureLasso leaves for the mask bits M on the box (0,0)-(bw-1,bh-1):
\* masked pixels copied (and cleared in cut mode), the others white in selBuf.
SelLassoed(bw, bh, M, cut) ==
    [cv |-> [y \in 1..SelH |-> [x \in 1..SelW |->
                IF cut /\ x <= bw /\ y <= bh /\ (y - 1) * bw + (x - 1) \in M
                THEN C_WHITE ELSE SelCanvas[y][x]]],
     w |-> SelW, h |-> SelH,
     selX1 |-> 0, selY1 |-> 0, selX2 |-> bw - 1, selY2 |-> bh - 1,
     selW |-> bw, selH |-> bh, selCutMode |-> cut, selPhase |-> "SEL_LASSO_PLACE",
     hasBuf |-> TRUE,
     selBuf |-> [k \in 1..(bw * bh) |->
                    IF k - 1 \in M THEN SelCanvas[((k - 1) \div bw) + 1][((k - 1) % bw) + 1]
                    ELSE C_WHITE],
     hasMask |-> TRUE,
     selMask |-> [b \in 1..((bw * bh + 7) \div 8) |->
                     SumBits({k % 8 : k \in {j \in M : j \div 8 = b - 1}})],
     blocks |-> 2, ret |-> "captured"]

\* Sizes of the boxes a lasso can have: its points are more than one pixel
\* apart, so the box is at least three pixels wide or high.
LassoBoxes ==
    {c \in (1..SelW) \X (1..SelH) : c[1] * c[2] <= MaxMaskBits /\ (c[1] >= 3 \/ c[2] >= 3)}

SelHeld(st, kind) ==
    [pc |-> "held", kind |-> kind, in |-> st, st |-> st, base |-> st, prev |-> st,
     rot |-> 0, dx |-> 0, dy |-> 0]

SelInputs ==
    {[pc |-> "sel", kind |-> "rect", in |-> SelBoxed(x1, y1, x2, y2, cut),
      st |-> SelBoxed(x1, y1, x2, y2, cut), base |-> SelBoxed(x1, y1, x2, y2, cut),
      prev |-> SelBoxed(x1, y1, x2, y2, cut), rot |-> 0, dx |-> 0, dy |-> 0] :
        x1 \in 0..(SelW - 1), x2 \in 0..(SelW - 1),
        y1 \in 0..(SelH - 1), y2 \in 0..(SelH - 1), cut \in BOOLEAN}
    \cup
    UNION {{SelHeld(SelLassoed(b[1], b[2], M, cut), "lasso") :
               M \in {m \in SUBSET (0..(b[1] * b[2] - 1)) : Cardinality(m) >= 2},
               cut \in BOOLEAN} :
           b \in LassoBoxes}

SelInit ==
    /\ ProgramStart
    /\ heapOther = 0
    /\ rle = [pc |-> "idle"]
    /\ tool \in {t \in SelInputs : t.in.selX1 <= t.in.selX2 /\ t.in.selY1 <= t.in.selY2}

\* The capture keeps the state before it for the properties.
SelCaptured(t, r) == [SelHeld(r, "rect") EXCEPT !.in = t.in]

\* Second corner tapped: selCaptureRect(), then selPhase = SEL_PLACE.
SelCapture(ok1, ok2) ==
    /\ tool.pc = "sel"
    /\ \E r \in {selCaptureRect(tool.st, ok1, ok2)} :
          tool' = IF r.ret = "captured"
                  THEN SelCaptured(tool, [r EXCEPT !.selPhase = "SEL_PLACE"])
                  ELSE [tool EXCEPT !.pc = "cancelled",
                                    !.st = [r EXCEPT !.selPhase = "SEL_PLACE"]]
    /\ UNCHANGED <<progVars, rle>>

\* ROT button while a selection is held.
SelRotate(ok1, ok2, g) ==
    /\ tool.pc = "held"
    /\ tool.rot < 4
    /\ \E r \in {selRotate90(tool.st, ok1, ok2, g)} :
          tool' = [tool EXCEPT !.st = r, !.prev = tool.st,
                               !.rot = IF r.ret = "rotated" THEN tool.rot + 1 ELSE tool.rot]
    /\ UNCHANGED <<progVars, rle>>

\* A tap on the canvas while a selection is held: inside the box it is put
\* back where it is, elsewhere its top-left corner goes to the tap.
SelPlace(cx, cy) ==
    /\ tool.pc = "held"
    /\ \E d \in {IF /\ cx >= tool.st.selX1 /\ cx <= tool.st.selX2
                    /\ cy >= tool.st.selY1 /\ cy <= tool.st.selY2
                 THEN <<tool.st.selX1, tool.st.selY1>> ELSE <<cx, cy>>} :
          tool' = [tool EXCEPT !.pc = "placed", !.prev = tool.st,
                               !.st = selPlace(tool.st, d[1], d[2]),
                               !.dx = d[1], !.dy = d[2]]
    /\ UNCHANGED <<progVars, rle>>

SelNext ==
    \/ \E ok1 \in BOOLEAN, ok2 \in BOOLEAN : SelCapture(ok1, ok2)
    \/ \E ok1 \in BOOLEAN, ok2 \in BOOLEAN, g \in Garbage : SelRotate(ok1, ok2, g)
    \/ \E cx \in 0..(SelW - 1), cy \in 0..(SelH - 1) : SelPlace(cx, cy)

SpecSel == SelInit /\ [][SelNext]_vars


\* Whether canvas pixel (x, y) lies in the box of bw by bh pixels at (bx, by).
InBox(x, y, bx, by, bw, bh) ==
    x >= bx /\ x < bx + bw /\ y >= by /\ y < by + bh

\* The placed selection of tool t was captured from a rectangle in cut mode
\* and put down as captured.
CutAndPlaced(t) ==
    /\ t.pc = "placed" /\ t.kind = "rect" /\ t.rot = 0
    /\ t.in.selCutMode /\ t.st.ret = "placed"

\* C19: a rectangle (x1,y1)-(x2,y2) captured by selCaptureRect in cut mode
\* and placed by selPlace at (dx,dy) leaves every in-canvas destination pixel
\* (dx+i, dy+j) with the original value of (x1+i, y1+j), every other pixel of
\* the source box white (the background), and every pixel outside both boxes
\* as it was.
C19_CutAndPlace ==
    CutAndPlaced(tool) =>
        \A y \in 0..(tool.in.h - 1), x \in 0..(tool.in.w - 1) :
            LET bw == tool.in.selX2 - tool.in.selX1 + 1
                bh == tool.in.selY2 - tool.in.selY1 + 1
            IN  tool.st.cv[y + 1][x + 1] =
                    IF InBox(x, y, tool.dx, tool.dy, bw, bh)
                    THEN tool.in.cv[tool.in.selY1 + (y - tool.dy) + 1]
                                   [tool.in.selX1 + (x - tool.dx) + 1]
                    ELSE IF InBox(x, y, tool.in.selX1, tool.in.selY1, bw, bh)
                    THEN C_WHITE
                    ELSE tool.in.cv[y + 1][x + 1]

\* The two by two box at (1,1) cut and placed by a tap at (2,0), above the
\* box: the destination covers pixel (2,1) of the source box and runs off the
\* right edge of the canvas.
C19_Witness ==
    /\ CutAndPlaced(tool)
    /\ tool.in.selX1 = 1 /\ tool.in.selY1 = 1
    /\ tool.in.selX2 = 2 /\ tool.in.selY2 = 2
    /\ tool.dx = 2 /\ tool.dy = 0
    /\ tool.dx + 2 > tool.in.w
    /\ tool.st.cv[2][3] = tool.in.cv[3][2]
    /\ tool.st.cv[1][3] = tool.in.cv[2][2]
    /\ tool.st.cv[2][2] = C_WHITE /\ tool.st.cv[3][3] = C_WHITE
    /\ tool.st.cv[1][1] = tool.in.cv[1][1]
    /\ ~tool.st.hasBuf

\* The pixel and the mask bit of the selection st at (x, y).
SelPixel(st, x, y) == st.selBuf[y * st.selW + x + 1]

SelMasked(st, x, y) == st.hasMask => selMaskGet(st, x, y)

\* The selections a and b have the same size, pixels and mask bits.
SameSelection(a, b) ==
    /\ a.selW = b.selW /\ a.selH = b.selH
    /\ a.selBuf = b.selBuf
    /\ a.hasMask = b.hasMask
    /\ \A y \in 0..(a.selH - 1), x \in 0..(a.selW - 1) : SelMasked(a, x, y) = SelMasked(b, x, y)

\* C20: selRotate90 turns a held selection of M rows and N columns into one
\* of N rows and M columns whose pixel at (x,y) is the former pixel at
\* (y, M-1-x), the mask bits moving the same way; four rotations in a row
\* give back the buffer, the mask bits, the width and the height.
C20_Rotate90 ==
    (tool.pc = "held" /\ tool.st.ret = "rotated") =>
        /\ tool.st.selW = tool.prev.selH
        /\ tool.st.selH = tool.prev.selW
        /\ Len(tool.st.selBuf) = tool.st.selW * tool.st.selH
        /\ \A y \in 0..(tool.st.selH - 1), x \in 0..(tool.st.selW - 1) :
              /\ SelPixel(tool.st, x, y) = SelPixel(tool.prev, y, tool.prev.selH - 1 - x)
              /\ SelMasked(tool.st, x, y) = SelMasked(tool.prev, y, tool.prev.selH - 1 - x)
        /\ tool.rot = 4 => SameSelection(tool.st, tool.base)

\* Four rotations of a lasso selection three wide and two high, with pixels
\* inside and outside the lasso.
C20_Witness ==
    /\ tool.pc = "held" /\ tool.st.ret = "rotated" /\ tool.rot = 4
    /\ tool.kind = "lasso"
    /\ tool.st.selW = 3 /\ tool.st.selH = 2
    /\ tool.prev.selW = 2 /\ tool.prev.selH = 3
    /\ selMaskGet(tool.st, 0, 0) /\ ~selMaskGet(tool.st, 1, 0)
    /\ selMaskGet(tool.prev, 1, 0) /\ ~selMaskGet(tool.prev, 1, 1)
    /\ SameSelection(tool.st, tool.base)


\* ---------------------------------------------------------------------------
\* Holding a selection: wand and lasso captures, and the taps and buttons
\* that capture, place and drop a selection.
\* ---------------------------------------------------------------------------

\* The pixels wandSelect marks in vis: floodFill's walk over wq with VS in
\* the place of the paint.
wandWalk(cv, w, h, x, y, tol) ==
    fillRun(fillStart(cv, w, h, x, y, C_BLACK, 0, C_BLACK, tol, TRUE, TRUE))

wandVisited(cv, w, h, x, y, tol) == wandWalk(cv, w, h, x, y, tol).vis

\* minX, maxX, minY, maxY of wandSelect: the seed span and every segment are
\* marked in vis, so they bound the marked pixels.
wandMin(S) == CHOOSE a \in S : \A b \in S : a <= b

wandMax(S) == CHOOSE a \in S : \A b \in S : a >= b

wandCols(vis, w, h) == {x \in 0..(w - 1) : \E y \in 0..(h - 1) : vis[y + 1][x + 1]}

wandRows(vis, w, h) == {y \in 0..(h - 1) : \E x \in 0..(w - 1) : vis[y + 1][x + 1]}

wandBoxed(st, vis) ==
    [st EXCEPT !.selX1 = wandMin(wandCols(vis, st.w, st.h)),
               !.selX2 = wandMax(wandCols(vis, st.w, st.h)),
               !.selY1 = wandMin(wandRows(vis, st.w, st.h)),
               !.selY2 = wandMax(wandRows(vis, st.w, st.h)),
               !.selW = wandMax(wandCols(vis, st.w, st.h)) - wandMin(wandCols(vis, st.w, st.h)) + 1,
               !.selH = wandMax(wandRows(vis, st.w, st.h)) - wandMin(wandRows(vis, st.w, st.h)) + 1]

\* wandSelect from the allocations on: the marked pixels of the box go to
\* selBuf and selMask, the others are white in selBuf.
wandCopied(st, vis, ok1, ok2) ==
    IF st.selW <= 0 \/ st.selH <= 0 THEN Ret(selCancel(st), "empty")
    ELSE IF ~ok1 \/ ~ok2
    THEN Ret(selCancel([st EXCEPT !.hasBuf = ok1, !.hasMask = ok2,
                                  !.blocks = @ + (IF ok1 THEN 1 ELSE 0) + (IF ok2 THEN 1 ELSE 0)]),
             "nomem")
    ELSE [st EXCEPT
            !.blocks = @ + 2,
            !.hasBuf = TRUE,
            !.selBuf = [k \in 1..(st.selW * st.selH) |->
                           IF vis[st.selY1 + ((k - 1) \div st.selW) + 1]
                                 [st.selX1 + ((k - 1) % st.selW) + 1]
                           THEN st.cv[st.selY1 + ((k - 1) \div st.selW) + 1]
                                     [st.selX1 + ((k - 1) % st.selW) + 1]
                           ELSE C_WHITE],
            !.hasMask = TRUE,
            !.selMask = [b \in 1..((st.selW * st.selH + 7) \div 8) |->
                            SumBits({k \in 0..7 :
                                /\ 8 * (b - 1) + k < st.selW * st.selH
                                /\ vis[st.selY1 + ((8 * (b - 1) + k) \div st.selW) + 1]
                                      [st.selX1 + ((8 * (b - 1) + k) % st.selW) + 1]})],
            !.cv = IF ~st.selCutMode THEN st.cv
                   ELSE [y \in 1..st.h |-> [x \in 1..st.w |->
                            IF vis[y][x] THEN C_WHITE ELSE st.cv[y][x]]],
            !.selPhase = "SEL_PLACE",
            !.ret = "captured"]

\* wandSelect(x, y) under fillTolerance = tol; okVis, ok1 and ok2 tell whether
\* the calloc of vis, the malloc of selBuf and the calloc of selMask succeeded.
\* vis is freed on every path that allocated it.
wandSelect(st, x, y, tol, okVis, ok1, ok2) ==
    IF x < 0 \/ x >= st.w \/ y < 0 \/ y >= st.h THEN Ret(st, "outside")
    ELSE IF ~okVis THEN Ret(selRelease(st), "nomem")
    ELSE wandCopied(wandBoxed(selRelease(st), wandVisited(st.cv, st.w, st.h, x, y, tol)),
                    wandVisited(st.cv, st.w, st.h, x, y, tol), ok1, ok2)

\* selCaptureLasso() from the malloc of selBuf on, the mask built.
lassoCopied(st, okBuf) ==
    IF ~okBuf THEN Ret(selCancel(st), "nomem")
    ELSE [st EXCEPT
            !.blocks = @ + 1,
            !.hasBuf = TRUE,
            !.selBuf = [k \in 1..(st.selW * st.selH) |->
                           IF selMaskGet(st, (k - 1) % st.selW, (k - 1) \div st.selW)
                           THEN st.cv[st.selY1 + ((k - 1) \div st.selW) + 1]
                                     [st.selX1 + ((k - 1) % st.selW) + 1]
                           ELSE C_WHITE],
            !.cv = IF ~st.selCutMode THEN st.cv
                   ELSE [y \in 1..st.h |-> [x \in 1..st.w |->
                            IF selMaskGet(st, x - 1 - st.selX1, y - 1 - st.selY1)
                            THEN C_WHITE ELSE st.cv[y][x]]],
            !.ret = "captured"]

\* selCaptureLasso() for an outline of three or more points whose box is b
\* (x1, y1, x2, y2) and whose mask, as selBuildLassoMask fills it, has the
\* bits M; okMask and okBuf tell whether the calloc of selMask and the malloc
\* of selBuf succeeded.
selCaptureLasso(st, b, M, okMask, okBuf) ==
    IF ~okMask
    THEN Ret(selCancel([selRelease(st) EXCEPT
                           !.selX1 = b[1], !.selY1 = b[2], !.selX2 = b[3], !.selY2 = b[4],
                           !.selW = b[3] - b[1] + 1, !.selH = b[4] - b[2] + 1]), "nomem")
    ELSE lassoCopied([selRelease(st) EXCEPT
                         !.selX1 = b[1], !.selY1 = b[2], !.selX2 = b[3], !.selY2 = b[4],
                         !.selW = b[3] - b[1] + 1, !.selH = b[4] - b[2] + 1,
                         !.blocks = @ + 1,
                         !.hasMask = TRUE,
                         !.selMask = [k \in 1..(((b[3] - b[1] + 1) * (b[4] - b[2] + 1) + 7) \div 8) |->
                                         SumBits({i \in 0..7 : 8 * (k - 1) + i \in M})]],
                     okBuf)


\* The selection tools and the events of one sitting: at most MaxHold taps and
\* tool buttons, on the canvas of SelW by SelH pixels, under either cut mode
\* and a fillTolerance of 0 or 4.
MaxHold == 3

HoldTools == {"TOOL_SEL_RECT", "TOOL_LASSO", "TOOL_WAND"}

HoldStart(cut) ==
    [cv |-> SelCanvas, w |-> SelW, h |-> SelH,
     selX1 |-> 0, selY1 |-> 0, selX2 |-> 0, selY2 |-> 0,
     selW |-> 0, selH |-> 0, selCutMode |-> cut, selPhase |-> "SEL_NONE",
     hasBuf |-> FALSE, selBuf |-> <<>>, hasMask |-> FALSE, selMask |-> <<>>,
     blocks |-> 0, ret |-> "none"]

HoldInit ==
    /\ ProgramStart
    /\ heapOther = 0
    /\ rle = [pc |-> "idle"]
    /\ tool \in {[pc |-> "hold", st |-> HoldStart(cut), prev |-> HoldStart(cut),
                  active |-> a, tol |-> tol, n |-> 0, op |-> "start", caps |-> 0] :
                    cut \in BOOLEAN, a \in HoldTools, tol \in {0, 4}}

Held(op, r, capture) ==
    /\ tool' = [tool EXCEPT !.st = r, !.prev = tool.st, !.n = @ + 1, !.op = op,
                            !.caps = IF capture /\ r.hasBuf THEN @ + 1 ELSE @]
    /\ UNCHANGED <<progVars, rle>>

HoldReady == tool.pc = "hold" /\ tool.n < MaxHold

\* A tool button: selCancel(), then the tool is the one chosen.
HoldTool(a) ==
    /\ HoldReady
    /\ tool' = [tool EXCEPT !.st = selCancel(tool.st), !.prev = tool.st, !.n = @ + 1,
                            !.op = "tool", !.active = a]
    /\ UNCHANGED <<progVars, rle>>

\* A tap with the rectangle tool and no corner yet.
HoldCorner1(cx, cy) ==
    /\ HoldReady /\ tool.active = "TOOL_SEL_RECT"
    /\ tool.st.selPhase \in {"SEL_NONE", "SEL_CORNER1"}
    /\ Held("corner1", [tool.st EXCEPT !.selX1 = cx, !.selY1 = cy,
                                       !.selPhase = "SEL_CORNER2"], FALSE)

\* The tap of the second corner: the corners put in order, selCaptureRect(),
\* selPhase = SEL_PLACE.
HoldCorner2(cx, cy, ok1, ok2) ==
    /\ HoldReady /\ tool.active = "TOOL_SEL_RECT"
    /\ tool.st.selPhase = "SEL_CORNER2"
    /\ Held("rect",
            [selCaptureRect([tool.st EXCEPT
                                !.selX1 = IF tool.st.selX1 > cx THEN cx ELSE tool.st.selX1,
                                !.selX2 = IF tool.st.selX1 > cx THEN tool.st.selX1 ELSE cx,
                                !.selY1 = IF tool.st.selY1 > cy THEN cy ELSE tool.st.selY1,
                                !.selY2 = IF tool.st.selY1 > cy THEN tool.st.selY1 ELSE cy],
                            ok1, ok2)
             EXCEPT !.selPhase = "SEL_PLACE"], TRUE)

\* The first tap with the lasso tool starts the outline.
HoldLassoStart ==
    /\ HoldReady /\ tool.active = "TOOL_LASSO"
    /\ tool.st.selPhase = "SEL_NONE"
    /\ Held("outline", [tool.st EXCEPT !.selPhase = "SEL_LASSO_DRAW"], FALSE)

\* The stylus lifted with fewer than three points: the outline is dropped.
HoldLassoShort ==
    /\ HoldReady /\ tool.active = "TOOL_LASSO"
    /\ tool.st.selPhase = "SEL_LASSO_DRAW"
    /\ Held("short", [tool.st EXCEPT !.selPhase = "SEL_NONE"], FALSE)

\* The stylus lifted with three or more points: selCaptureLasso(), then
\* selPhase = SEL_LASSO_PLACE. The outline is given by its box and whether it
\* encloses the whole box or only its two end pixels.
HoldLasso(b, whole, okMask, okBuf) ==
    /\ HoldReady /\ tool.active = "TOOL_LASSO"
    /\ tool.st.selPhase = "SEL_LASSO_DRAW"
    /\ Held("lasso",
            [selCaptureLasso(tool.st, b,
                 IF whole THEN 0..((b[3] - b[1] + 1) * (b[4] - b[2] + 1) - 1)
                 ELSE {0, (b[3] - b[1] + 1) * (b[4] - b[2] + 1) - 1},
                 okMask, okBuf)
             EXCEPT !.selPhase = "SEL_LASSO_PLACE"], TRUE)

\* A tap with the wand tool: wandSelect(cx, cy), whatever is held.
HoldWand(cx, cy, okVis, ok1, ok2) ==
    /\ HoldReady /\ tool.active = "TOOL_WAND"
    /\ Held("wand", wandSelect(tool.st, cx, cy, tool.tol, okVis, ok1, ok2), TRUE)

\* A tap with the rectangle or the lasso tool in its place phase: inside the
\* box the selection is put back where it is, elsewhere at the tap.
HoldPlace(cx, cy) ==
    /\ HoldReady
    /\ \/ tool.active = "TOOL_SEL_RECT" /\ tool.st.selPhase = "SEL_PLACE"
       \/ tool.active = "TOOL_LASSO" /\ tool.st.selPhase = "SEL_LASSO_PLACE"
    /\ Held("place",
            IF /\ cx >= tool.st.selX1 /\ cx <= tool.st.selX2
               /\ cy >= tool.st.selY1 /\ cy <= tool.st.selY2
            THEN selPlace(tool.st, tool.st.selX1, tool.st.selY1)
            ELSE selPlace(tool.st, cx, cy), FALSE)

\* The boxes of lasso outlines on the canvas.
HoldBoxes ==
    {<<x1, y1, x1 + c[1] - 1, y1 + c[2] - 1>> :
        x1 \in 0..(SelW - 1), y1 \in 0..(SelH - 1), c \in LassoBoxes}

HoldNext ==
    \/ \E a \in HoldTools : HoldTool(a)
    \/ \E cx \in 0..(SelW - 1), cy \in 0..(SelH - 1) : HoldCorner1(cx, cy)
    \/ \E cx \in 0..(SelW - 1), cy \in 0..(SelH - 1), ok1 \in BOOLEAN, ok2 \in BOOLEAN :
          HoldCorner2(cx, cy, ok1, ok2)
    \/ HoldLassoStart
    \/ HoldLassoShort
    \/ \E b \in {c \in HoldBoxes : c[3] < SelW /\ c[4] < SelH}, whole \in BOOLEAN,
          okMask \in BOOLEAN, okBuf \in BOOLEAN : HoldLasso(b, whole, okMask, okBuf)
    \/ \E cx \in 0..(SelW - 1), cy \in 0..(SelH - 1),
          okVis \in BOOLEAN, ok1 \in BOOLEAN, ok2 \in BOOLEAN : HoldWand(cx, cy, okVis, ok1, ok2)
    \/ \E cx \in 0..(SelW - 1), cy \in 0..(SelH - 1) : HoldPlace(cx, cy)

SpecHold == HoldInit /\ [][HoldNext]_vars


\* Number of buffers the selection state st refers to.
HeldBlocks(st) == (IF st.hasBuf THEN 1 ELSE 0) + (IF st.hasMask THEN 1 ELSE 0)

\* C21: after selPlace no selection is held (no selBuf, no selMask, selW =
\* selH = 0, selPhase SEL_NONE) and a place that finds no buffer leaves the
\* canvas as it is; and at no time do two selections exist: the allocated
\* selection buffers are exactly the ones selBuf and selMask refer to, every
\* rect, lasso and wand capture having released the previous ones.
C21_OneSelection ==
    tool.pc = "hold" =>
        /\ tool.st.blocks = HeldBlocks(tool.st)
        /\ tool.st.hasBuf => Len(tool.st.selBuf) = tool.st.selW * tool.st.selH
        /\ tool.op = "place" =>
              /\ ~tool.st.hasBuf /\ ~tool.st.hasMask
              /\ tool.st.selW = 0 /\ tool.st.selH = 0
              /\ tool.st.selPhase = "SEL_NONE"
              /\ tool.st.blocks = 0
              /\ ~tool.prev.hasBuf => tool.st.cv = tool.prev.cv

\* A wand capture made while a wand selection was held, both allocations of
\* the second capture having succeeded.
C21_Witness ==
    /\ tool.pc = "hold" /\ tool.op = "wand" /\ tool.caps = 2
    /\ tool.prev.hasBuf /\ tool.prev.hasMask
    /\ tool.st.hasBuf /\ tool.st.hasMask /\ tool.st.blocks = 2


\* ---------------------------------------------------------------------------
\* Adding and deleting frames
\* ---------------------------------------------------------------------------

\* The sequence f with a copy of its entry at `at` put in after it.
DuplicatedFrames(f, at) ==
    [i \in 0..Cardinality(DOMAIN f) |-> IF i <= at THEN f[i] ELSE f[i - 1]]

\* C22: whenever animAddFrame increases animFrameCount, the new frame is at
\* index old animCurFrame + 1 and live, the canvas is still the pixels of the
\* frame it was put in after, that frame and every other keep their pixels,
\* the later ones one index up; at MAX_FRAMES or on a failed commit nothing
\* changes.
C22_AddDuplicates ==
    [][(last'.op = "add" /\ steps' = steps + 1) =>
          /\ last'.ret \in {"max", "false"} => animState' = animState
          /\ animFrameCount' # animFrameCount =>
                /\ animFrameCount' = animFrameCount + 1
                /\ animCurFrame' = animCurFrame + 1
                /\ canvas' = canvas
                /\ AnimFrames' = DuplicatedFrames(AnimFrames, animCurFrame)]_vars


\* The sequence f with its entry at `at` taken out.
RemovedFrames(f, at) ==
    [i \in 0..(Cardinality(DOMAIN f) - 2) |-> IF i < at THEN f[i] ELSE f[i + 1]]

\* C23: animDeleteFrame with two or more frames removes the live frame: the
\* count goes down by one, the frames after it move down by one with their
\* pixels, the live index is min(old index, new count - 1), the canvas shows
\* that frame and its slot is empty; with one frame the count stays 1 and the
\* canvas is cleared to white.
C23_DeleteRemovesLive ==
    [][(last'.op = "delete" /\ steps' = steps + 1) =>
          IF animFrameCount >= 2
          THEN /\ animFrameCount' = animFrameCount - 1
               /\ animCurFrame' = Min(animCurFrame, animFrameCount' - 1)
               /\ AnimFrames' = RemovedFrames(AnimFrames, animCurFrame)
               /\ canvas' = AnimFrames'[animCurFrame']
               /\ animStore'[animCurFrame'] = NullSlot
          ELSE /\ animFrameCount' = 1
               /\ canvas' = Uniform(NPIX, C_WHITE)]_vars

\* The first of three frames deleted: the frame that followed it is live, not
\* white, and a stored frame comes after it.
C23_Witness ==
    /\ last.op = "delete"
    /\ animFrameCount = 2 /\ animCurFrame = 0
    /\ canvas # Uniform(NPIX, C_WHITE)
    /\ animStore[1].data # 0


\* ---------------------------------------------------------------------------
\* The indices of canvas[] the drawing operations read and write
\* ---------------------------------------------------------------------------

\* Each operator below gives the set of indices an operation passes to
\* canvas[], computed from its loops and its tests as the code has them, on a
\* canvas of w by h pixels.

\* canvasGet(x, y), canvasSet(x, y, c): canvas[y * CANVAS_W + x]
canvasIndex(w, x, y) == y * w + x

\* A test that lets the columns right of the canvas through.
onCanvas_Open(w, h, x, y) == x >= 0 /\ y >= 0 /\ y < h

\* The test `x >= 0 && x < CANVAS_W && y >= 0 && y < CANVAS_H`.
onCanvas(w, h, x, y) == x >= 0 /\ x < w /\ y >= 0 /\ y < h

\* a / b of C for b > 0: the quotient rounded towards zero.
CDiv(a, b) == IF a >= 0 THEN a \div b ELSE -((-a) \div b)

\* The points canvasLine's loop visits from (x0, y0) on.
RECURSIVE linePoints(_, _, _, _, _, _, _, _, _)
linePoints(x0, y0, x1, y1, err, dx, dy, sx, sy) ==
    IF x0 = x1 /\ y0 = y1 THEN {<<x0, y0>>}
    ELSE {<<x0, y0>>} \cup
         linePoints(IF 2 * err >= dy THEN x0 + sx ELSE x0,
                    IF 2 * err <= dx THEN y0 + sy ELSE y0,
                    x1, y1,
                    err + (IF 2 * err >= dy THEN dy ELSE 0) + (IF 2 * err <= dx THEN dx ELSE 0),
                    dx, dy, sx, sy)

\* canvasLine(x0, y0, x1, y1, color)
canvasLine(w, h, x0, y0, x1, y1) ==
    {canvasIndex(w, q[1], q[2]) :
        q \in {r \in linePoints(x0, y0, x1, y1, Abs(x1 - x0) - Abs(y1 - y0),
                                Abs(x1 - x0), -Abs(y1 - y0),
                                IF x0 < x1 THEN 1 ELSE -1, IF y0 < y1 THEN 1 ELSE -1) :
                  onCanvas(w, h, r[1], r[2])}}

\* The writes of stampBrushAt(cx, cy, ...) with the pen or the eraser, where
\* the pattern lets them through.
stampWrites(w, h, b, cx, cy) ==
    {canvasIndex(w, cx + d[1], cy + d[2]) :
        d \in {e \in ((-brushRadius(b))..brushRadius(b)) \X ((-brushRadius(b))..brushRadius(b)) :
                  /\ e[1] * e[1] + e[2] * e[2] <= brushRadius(b) * brushRadius(b)
                  /\ onCanvas(w, h, cx + e[1], cy + e[2])}}

\* The dirty rectangle stampBrushAt reports: <<x1, y1, x2, y2>>.
stampDirty(w, h, b, cx, cy) ==
    <<IF cx - brushRadius(b) > 0 THEN cx - brushRadius(b) ELSE 0,
      IF cy - brushRadius(b) > 0 THEN cy - brushRadius(b) ELSE 0,
      Min(w - 1, cx + brushRadius(b)),
      Min(h - 1, cy + brushRadius(b))>>

\* The reads of the push of the rows y1..y2 from x1 to x2:
\* tft.pushPixels(&canvas[row * CANVAS_W + x1], pw).
pushReads(w, x1, y1, x2, y2) ==
    IF x2 >= x1 /\ y2 >= y1
    THEN {row * w + x1 + k : row \in y1..y2, k \in 0..(x2 - x1)}
    ELSE {}

\* The push of the rectangle that covers the dirty rectangles D, grown from
\* (CANVAS_W, CANVAS_H, 0, 0).
dirtyReads(w, h, D) ==
    pushReads(w,
              wandMin({w} \cup {d[1] : d \in D}), wandMin({h} \cup {d[2] : d \in D}),
              wandMax({0} \cup {d[3] : d \in D}), wandMax({0} \cup {d[4] : d \in D}))

\* The writes and the reads that follow the stamps at the centres C (a
\* sequence), unzoomed.
stampedAll(w, h, b, C) ==
    UNION {stampWrites(w, h, b, C[i][1], C[i][2]) : i \in DOMAIN C}
    \cup dirtyReads(w, h, {stampDirty(w, h, b, C[i][1], C[i][2]) : i \in DOMAIN C})

\* toolApply(cx, cy) with the pen or the eraser.
toolApplyTouched(w, h, b, mx, my, cx, cy) ==
    IF ~onCanvas(w, h, cx, cy) THEN {}
    ELSE stampedAll(w, h, b, stampMirrored(Brush(w, h, b, 0, mx, my), cx, cy).stamps)

\* toolApplyLine(x0, y0, x1, y1)
toolApplyLineTouched(w, h, b, mx, my, x0, y0, x1, y1) ==
    stampedAll(w, h, b, toolApplyLine(Brush(w, h, b, 0, mx, my), x0, y0, x1, y1).stamps)

\* drawShapeLine(x0, y0, x1, y1, color)
drawShapeLine(w, h, b, mx, my, x0, y0, x1, y1) ==
    IF b <= 1 THEN canvasLine(w, h, x0, y0, x1, y1)
    ELSE toolApplyLineTouched(w, h, b, mx, my, x0, y0, x1, y1)

\* One band of drawShapeRect: the four lines of the rectangle (x0, y0)-(x1, y1).
rectBand(w, h, x0, y0, x1, y1) ==
    canvasLine(w, h, x0, y0, x1, y0) \cup canvasLine(w, h, x0, y1, x1, y1)
    \cup canvasLine(w, h, x0, y0, x0, y1) \cup canvasLine(w, h, x1, y0, x1, y1)

\* drawShapeRect(x0, y0, x1, y1, color) for x0 <= x1, y0 <= y1: the bands
\* i = 0 .. max(1, brushSize - 1) - 1, until one is empty.
drawShapeRectOrdered(w, h, b, x0, y0, x1, y1) ==
    UNION {rectBand(w, h, x0 + i, y0 + i, x1 - i, y1 - i) :
              i \in {j \in 0..((IF b - 1 > 1 THEN b - 1 ELSE 1) - 1) :
                        x0 + j <= x1 - j /\ y0 + j <= y1 - j}}

drawShapeRect(w, h, b, x0, y0, x1, y1) ==
    drawShapeRectOrdered(w, h, b, Min(x0, x1), Min(y0, y1),
                         IF x0 > x1 THEN x0 ELSE x1, IF y0 > y1 THEN y0 ELSE y1)

\* fillShapeRect(x0, y0, x1, y1)
fillShapeRect(w, h, b, x0, y0, x1, y1) ==
    {canvasIndex(w, x, y) :
        x \in {u \in (Min(x0, x1) + (IF b - 1 > 1 THEN b - 1 ELSE 1))
                     ..((IF x0 > x1 THEN x0 ELSE x1) - (IF b - 1 > 1 THEN b - 1 ELSE 1)) :
                  u >= 0 /\ u < w},
        y \in {v \in (Min(y0, y1) + (IF b - 1 > 1 THEN b - 1 ELSE 1))
                     ..((IF y0 > y1 THEN y0 ELSE y1) - (IF b - 1 > 1 THEN b - 1 ELSE 1)) :
                  v >= 0 /\ v < h}}

\* EP4(ex, ey): the four mirrored points of drawEllipseRing that are on the
\* canvas.
EP4(w, h, cx, cy, ex, ey) ==
    {canvasIndex(w, q[1], q[2]) :
        q \in {r \in {<<cx + ex, cy + ey>>, <<cx - ex, cy + ey>>,
                      <<cx + ex, cy - ey>>, <<cx - ex, cy - ey>>} :
                  onCanvas(w, h, r[1], r[2])}}

\* The second loop of drawEllipseRing: while (ey >= 0).
RECURSIVE ringLow(_, _, _, _, _, _, _, _, _, _, _)
ringLow(w, h, cx, cy, rx2, ry2, ex, ey, p, ppx, ppy) ==
    IF ey < 0 THEN {}
    ELSE EP4(w, h, cx, cy, ex, ey) \cup
         (IF p > 0
          THEN ringLow(w, h, cx, cy, rx2, ry2, ex, ey - 1,
                       p + rx2 - (ppy - 2 * rx2), ppx, ppy - 2 * rx2)
          ELSE ringLow(w, h, cx, cy, rx2, ry2, ex + 1, ey - 1,
                       p + rx2 - (ppy - 2 * rx2) + (ppx + 2 * ry2),
                       ppx + 2 * ry2, ppy - 2 * rx2))

\* The first loop of drawEllipseRing: while (ppx < ppy), then the second
\* loop with its own p.
RECURSIVE ringHigh(_, _, _, _, _, _, _, _, _, _, _)
ringHigh(w, h, cx, cy, rx2, ry2, ex, ey, p, ppx, ppy) ==
    IF ~(ppx < ppy)
    THEN ringLow(w, h, cx, cy, rx2, ry2, ex, ey,
                 ry2 * (ex + 1) * (ex + 1) + rx2 * (ey - 1) * (ey - 1) - rx2 * ry2,
                 ppx, ppy)
    ELSE EP4(w, h, cx, cy, ex, ey) \cup
         (IF p < 0
          THEN ringHigh(w, h, cx, cy, rx2, ry2, ex + 1, ey,
                        p + ry2 + (ppx + 2 * ry2), ppx + 2 * ry2, ppy)
          ELSE ringHigh(w, h, cx, cy, rx2, ry2, ex + 1, ey - 1,
                        p + ry2 + (ppx + 2 * ry2) - (ppy - 2 * rx2),
                        ppx + 2 * ry2, ppy - 2 * rx2))

\* drawEllipseRing(cx, cy, rx, ry, color)
drawEllipseRing(w, h, cx, cy, rx, ry) ==
    IF rx <= 0 \/ ry <= 0
    THEN (IF onCanvas(w, h, cx, cy) THEN {canvasIndex(w, cx, cy)} ELSE {})
    ELSE ringHigh(w, h, cx, cy, rx * rx, ry * ry, 0, ry,
                  ry * ry - rx * rx * ry + CDiv(rx * rx, 4), 0, 2 * rx * rx * ry)

\* The pixels drawShapeEllipse and fillShapeEllipse scan for the radii
\* (rx, ry): the box of the ellipse cut to the canvas. Which of them the
\* float tests let through is left open, so all of them count as written.
ellipseBox(w, h, cx, cy, rx, ry) ==
    {canvasIndex(w, px, py) :
        px \in (IF cx - rx > 0 THEN cx - rx ELSE 0)..Min(w - 1, cx + rx),
        py \in (IF cy - ry > 0 THEN cy - ry ELSE 0)..Min(h - 1, cy + ry)}

\* drawShapeEllipse(cx, cy, rx, ry, color)
drawShapeEllipse(w, h, b, cx, cy, rx, ry) ==
    IF b <= 1 THEN drawEllipseRing(w, h, cx, cy, rx, ry)
    ELSE ellipseBox(w, h, cx, cy, rx, ry)

\* fillShapeEllipse(cx, cy, rx, ry)
fillShapeEllipse(w, h, b, cx, cy, rx, ry) ==
    IF rx - b <= 0 \/ ry - b <= 0 THEN {}
    ELSE ellipseBox(w, h, cx, cy, rx - b, ry - b)

\* Every pixel of the canvas, as the loops `for py < CANVAS_H, for px <
\* CANVAS_W` of drawGradientLine, gradientFillRegion and loadFile reach them.
allPixels(w, h) == {canvasIndex(w, px, py) : px \in 0..(w - 1), py \in 0..(h - 1)}

\* What a span walk adds: an index outside canvas[] stands as -1.
walkTouched(r) == IF r.oob THEN {-1} ELSE {}

\* gradientFillRegion(seedX, seedY, ...): the seed read, the span walk with
\* its visited bits, then the loops over the canvas.
gradientFillRegion(cv, w, h, tol, seedX, seedY, okVis) ==
    IF ~onCanvas(w, h, seedX, seedY) THEN {}
    ELSE IF ~okVis THEN {canvasIndex(w, seedX, seedY)}
    ELSE {canvasIndex(w, seedX, seedY)}
         \cup walkTouched(wandWalk(cv, w, h, seedX, seedY, tol))
         \cup allPixels(w, h)

\* The second point of a shape under constrain mode, for the first point
\* (ox, oy) and the tap (cx, cy).
shapeEnd(tl, cm, ox, oy, cx, cy) ==
    IF ~cm THEN <<cx, cy>>
    ELSE CASE tl = "TOOL_RECT" ->
                <<ox + (IF cx >= ox THEN 1 ELSE -1)
                        * (IF Abs(cx - ox) > Abs(cy - oy) THEN Abs(cx - ox) ELSE Abs(cy - oy)),
                  oy + (IF cy >= oy THEN 1 ELSE -1)
                        * (IF Abs(cx - ox) > Abs(cy - oy) THEN Abs(cx - ox) ELSE Abs(cy - oy))>>
           [] tl = "TOOL_ELLIPSE" ->
                <<ox + (IF cx >= ox THEN 1 ELSE -1) * ((Abs(cx - ox) + Abs(cy - oy)) \div 2),
                  oy + (IF cy >= oy THEN 1 ELSE -1) * ((Abs(cx - ox) + Abs(cy - oy)) \div 2)>>
           [] tl = "TOOL_LINE" ->
                IF Abs(cx - ox) > Abs(cy - oy) * 2 THEN <<cx, oy>>
                ELSE IF Abs(cy - oy) > Abs(cx - ox) * 2 THEN <<ox, cy>>
                ELSE <<ox + (IF cx >= ox THEN 1 ELSE -1) * ((Abs(cx - ox) + Abs(cy - oy)) \div 2),
                       oy + (IF cy >= oy THEN 1 ELSE -1) * ((Abs(cx - ox) + Abs(cy - oy)) \div 2)>>
           [] OTHER -> <<cx, cy>>

\* The settings of a shape tap as one record g: cv, w, h the canvas; tl the
\* tool; b the brush size; mx, my the mirrors; cm constrain mode; fill
\* whether secondColor is not white; tol fillTolerance; okVis the calloc of
\* gradientFillRegion.

\* The lambda drawShape(ax0, ay0, ax1, ay1)
drawShape(g, ax0, ay0, ax1, ay1) ==
    CASE g.tl = "TOOL_LINE" -> drawShapeLine(g.w, g.h, g.b, g.mx, g.my, ax0, ay0, ax1, ay1)
      [] g.tl = "TOOL_RECT" ->
            (IF g.fill THEN fillShapeRect(g.w, g.h, g.b, ax0, ay0, ax1, ay1) ELSE {})
            \cup drawShapeRect(g.w, g.h, g.b, ax0, ay0, ax1, ay1)
      [] g.tl = "TOOL_ELLIPSE" ->
            (IF g.fill
             THEN fillShapeEllipse(g.w, g.h, g.b, CDiv(ax0 + ax1, 2), CDiv(ay0 + ay1, 2),
                                   Abs(ax1 - ax0) \div 2, Abs(ay1 - ay0) \div 2)
             ELSE {})
            \cup drawShapeEllipse(g.w, g.h, g.b, CDiv(ax0 + ax1, 2), CDiv(ay0 + ay1, 2),
                                  Abs(ax1 - ax0) \div 2, Abs(ay1 - ay0) \div 2)
      [] g.tl = "TOOL_GRADIENT" ->
            IF g.cm THEN gradientFillRegion(g.cv, g.w, g.h, g.tol, ax0, ay0, g.okVis)
            ELSE allPixels(g.w, g.h)

\* The shape and its mirror copies between (ox, oy) and the end point e.
shapeDrawn(g, ox, oy, e) ==
    drawShape(g, ox, oy, e[1], e[2])
    \cup (IF g.mx THEN drawShape(g, g.w - 1 - ox, oy, g.w - 1 - e[1], e[2]) ELSE {})
    \cup (IF g.my THEN drawShape(g, ox, g.h - 1 - oy, e[1], g.h - 1 - e[2]) ELSE {})
    \cup (IF g.mx /\ g.my
          THEN drawShape(g, g.w - 1 - ox, g.h - 1 - oy, g.w - 1 - e[1], g.h - 1 - e[2])
          ELSE {})

\* handleMainTouch, the second tap of a two-tap tool at (cx, cy), the first
\* having been at (ox, oy).
shapeTap(g, ox, oy, cx, cy) ==
    shapeDrawn(g, ox, oy, shapeEnd(g.tl, g.cm, ox, oy, cx, cy))

\* stampText(tx2, ty2) for n characters on one line at render size rs, every
\* bit of every glyph taken as set.
stampText(w, h, tx2, ty2, rs, bold, n) ==
    UNION {(IF onCanvas(w, h, q[1], q[2]) THEN {canvasIndex(w, q[1], q[2])} ELSE {})
           \cup (IF bold /\ onCanvas(w, h, q[1] + 1, q[2])
                 THEN {canvasIndex(w, q[1] + 1, q[2])} ELSE {}) :
              q \in {<<tx2 + ci * 6 * rs + col * rs + sx, ty2 + row * rs + sy>> :
                        ci \in 0..(n - 1), col \in 0..4, row \in 0..6,
                        sx \in 0..(rs - 1), sy \in 0..(rs - 1)}}

\* The reads and writes of selCaptureRect() once the box is selX1..selY2 and
\* selW by selH.
selCaptureTouched(st) ==
    {(st.selY1 + y) * st.w + (st.selX1 + x) : x \in 0..(st.selW - 1), y \in 0..(st.selH - 1)}
    \cup (IF st.selCutMode
          THEN {y * st.w + x : x \in st.selX1..st.selX2, y \in st.selY1..st.selY2}
          ELSE {})

\* The writes of selPlace(destX, destY).
selPlaceTouched(st, destX, destY) ==
    IF ~st.hasBuf \/ st.selW <= 0 \/ st.selH <= 0 THEN {}
    ELSE {canvasIndex(st.w, destX + x, destY + y) :
             x \in {u \in 0..(st.selW - 1) : destX + u >= 0 /\ destX + u < st.w},
             y \in {v \in 0..(st.selH - 1) : destY + v >= 0 /\ destY + v < st.h}}

\* The writes of loadFile's row loop when `rows` rows could be read, for
\* either row order.
bmpTouched(w, h, rows, bottomUp) ==
    {canvasIndex(w, col, IF bottomUp THEN h - 1 - i ELSE i) :
        col \in 0..(w - 1), i \in 0..(rows - 1)}

\* wandSelect(x, y) from a state with no selection: the seed read, the span
\* walk, and the copy of the box of the marked pixels.
wandTouched(st, x, y, tol) ==
    {canvasIndex(st.w, x, y)}
    \cup walkTouched(wandWalk(st.cv, st.w, st.h, x, y, tol))
    \cup selCaptureTouched(wandBoxed(st, wandVisited(st.cv, st.w, st.h, x, y, tol)))

\* floodFill(x, y, newColor): the seed read and the span walk.
fillTouched(cv, w, h, x, y, pat, tol, okVis) ==
    IF ~onCanvas(w, h, x, y) THEN {}
    ELSE {canvasIndex(w, x, y)}
         \cup walkTouched(floodFill(cv, w, h, x, y, C_RED, pat, C_WHITE, tol, okVis))


\* The operations are tried one at a time on a canvas of StampW by StampH
\* pixels (the selections on SelW by SelH), with brush sizes 1..MaxBrush + 1,
\* every tap on the canvas, every mirror and constrain setting; the canvases
\* of the span walks are white with black ink on any of four pixels.
IdxBrushes == 1..(MaxBrush + 1)

IdxInk == {1, 4, 6, 9}

IdxCanvases ==
    {[y \in 1..StampH |-> [x \in 1..StampW |->
         IF (y - 1) * StampW + (x - 1) \in S THEN C_BLACK ELSE C_WHITE]] : S \in SUBSET IdxInk}

IdxPoints == (0..(StampW - 1)) \X (0..(StampH - 1))

IdxShapes == {"TOOL_LINE", "TOOL_RECT", "TOOL_ELLIPSE", "TOOL_GRADIENT"}

IdxIdle ==
    [pc |-> "idle", op |-> "none", w |-> StampW, h |-> StampH, a |-> <<>>,
     e |-> <<0, 0>>, touched |-> {}, st |-> HoldStart(FALSE), rot |-> 0]

IdxInit ==
    /\ ProgramStart
    /\ heapOther = 0
    /\ rle = [pc |-> "idle"]
    /\ tool = IdxIdle

Touched(op, a, e, T) ==
    /\ tool' = [IdxIdle EXCEPT !.pc = "touched", !.op = op, !.a = a, !.e = e, !.touched = T]
    /\ UNCHANGED <<progVars, rle>>

\* The settings of a shape tap; the canvas of gradientFillRegion is white
\* with a black column.
IdxSettings(tl, b, mx, my, cm, fill) ==
    [cv |-> [y \in 1..StampH |-> [x \in 1..StampW |-> IF x = 2 THEN C_BLACK ELSE C_WHITE]],
     w |-> StampW, h |-> StampH, tl |-> tl, b |-> b, mx |-> mx, my |-> my,
     cm |-> cm, fill |-> fill, tol |-> 0, okVis |-> TRUE]

\* A pen stroke: toolApply at its first sample, toolApplyLine to the next.
IdxBrush ==
    /\ tool.pc = "idle"
    /\ \E b \in IdxBrushes, mx \in BOOLEAN, my \in BOOLEAN, p \in IdxPoints, q \in IdxPoints :
          Touched("brush", <<b, mx, my, p, q>>, q,
                  toolApplyTouched(StampW, StampH, b, mx, my, p[1], p[2])
                  \cup toolApplyLineTouched(StampW, StampH, b, mx, my, p[1], p[2], q[1], q[2]))

\* The second tap of a line, rectangle, ellipse or gradient.
IdxShape ==
    /\ tool.pc = "idle"
    /\ \E tl \in IdxShapes, b \in IdxBrushes, mx \in BOOLEAN, my \in BOOLEAN,
          cm \in BOOLEAN, fill \in BOOLEAN, p \in IdxPoints, q \in IdxPoints :
          Touched("shape", <<tl, b, mx, my, cm, fill, p, q>>,
                  shapeEnd(tl, cm, p[1], p[2], q[1], q[2]),
                  shapeTap(IdxSettings(tl, b, mx, my, cm, fill), p[1], p[2], q[1], q[2]))

\* An edge of drawPolygon or a segment of drawBezierCurve: a drawShapeLine
\* between two points of the canvas.
IdxEdge ==
    /\ tool.pc = "idle"
    /\ \E b \in IdxBrushes, mx \in BOOLEAN, my \in BOOLEAN, p \in IdxPoints, q \in IdxPoints :
          Touched("edge", <<b, mx, my, p, q>>, q,
                  drawShapeLine(StampW, StampH, b, mx, my, p[1], p[2], q[1], q[2]))

\* stampText at the tap p.
IdxText ==
    /\ tool.pc = "idle"
    /\ \E p \in IdxPoints, rs \in 1..2, bold \in BOOLEAN, n \in 1..2 :
          Touched("text", <<p, rs, bold, n>>, p,
                  stampText(StampW, StampH, p[1], p[2], rs, bold, n))

\* The bucket tapped at p.
IdxFill ==
    /\ tool.pc = "idle"
    /\ \E cv \in IdxCanvases, p \in IdxPoints, pat \in {0, 1}, tol \in {0, 4}, okVis \in BOOLEAN :
          Touched("fill", <<cv, p, pat, tol, okVis>>, p,
                  fillTouched(cv, StampW, StampH, p[1], p[2], pat, tol, okVis))

\* The wand tapped at p.
IdxWand ==
    /\ tool.pc = "idle"
    /\ \E cv \in IdxCanvases, p \in IdxPoints, tol \in {0, 4} :
          Touched("wand", <<cv, p, tol>>, p,
                  wandTouched([HoldStart(FALSE) EXCEPT !.cv = cv, !.w = StampW, !.h = StampH],
                              p[1], p[2], tol))

\* loadFile's row loop.
IdxLoad ==
    /\ tool.pc = "idle"
    /\ \E rows \in 0..StampH, bottomUp \in BOOLEAN :
          Touched("load", <<rows, bottomUp>>, <<0, 0>>,
                  bmpTouched(StampW, StampH, rows, bottomUp))

\* The second corner of a rectangle selection, or a lasso released whose
\* outline has the same box.
IdxCapture ==
    /\ tool.pc = "idle"
    /\ \E x1 \in 0..(SelW - 1), y1 \in 0..(SelH - 1), cut \in BOOLEAN :
       \E x2 \in x1..(SelW - 1), y2 \in y1..(SelH - 1) :
       \E r \in {selCaptureRect(SelBoxed(x1, y1, x2, y2, cut), TRUE, TRUE)} :
          tool' = [IdxIdle EXCEPT !.pc = "held", !.op = "capture", !.w = SelW, !.h = SelH,
                                  !.a = <<x1, y1, x2, y2, cut>>, !.st = r,
                                  !.touched = selCaptureTouched(r)]
    /\ UNCHANGED <<progVars, rle>>

\* ROT while the selection is held.
IdxRotate ==
    /\ tool.pc = "held" /\ tool.rot < 2
    /\ tool' = [tool EXCEPT !.st = selRotate90(tool.st, TRUE, TRUE, C_BLACK),
                            !.rot = @ + 1, !.op = "rotate", !.touched = {}]
    /\ UNCHANGED <<progVars, rle>>

\* The tap that places the held selection.
IdxPlace ==
    /\ tool.pc = "held"
    /\ \E cx \in 0..(SelW - 1), cy \in 0..(SelH - 1) :
       \E d \in {IF /\ cx >= tool.st.selX1 /\ cx <= tool.st.selX2
                    /\ cy >= tool.st.selY1 /\ cy <= tool.st.selY2
                 THEN <<tool.st.selX1, tool.st.selY1>> ELSE <<cx, cy>>} :
          tool' = [tool EXCEPT !.pc = "touched", !.op = "place", !.e = d,
                               !.touched = selPlaceTouched(tool.st, d[1], d[2])]
    /\ UNCHANGED <<progVars, rle>>

IdxNext ==
    \/ IdxBrush \/ IdxShape \/ IdxEdge \/ IdxText \/ IdxFill \/ IdxWand \/ IdxLoad
    \/ IdxCapture \/ IdxRotate \/ IdxPlace

SpecIdx == IdxInit /\ [][IdxNext]_vars


SlotPointers ==
    {<<"animStore", i, animStore[i].data>> : i \in 0..(MAX_FRAMES - 1)}
        \cup {<<"undoStack", i, undoStack[i].data>> : i \in 0..(UNDO_MAX_SLOTS - 1)}
        \cup {<<"redoStack", i, redoStack[i].data>> : i \in 0..(UNDO_MAX_SLOTS - 1)}

Owners(a) == {p \in SlotPointers : p[3] = a}

\* C25: between events no two slots of animStore, undoStack and redoStack
\* hold the same buffer, no slot holds a freed buffer, every allocated blob
\* is held by exactly one slot, and no block was freed twice.
C25_ExclusiveOwnership ==
    /\ ~ub
    /\ \A a \in Addrs :
          IF heap[a] = <<>> THEN Owners(a) = {}
          ELSE Cardinality(Owners(a)) = 1

\* Frames were moved while the store holds two blobs and the undo ring one.
C25_Witness ==
    /\ last.op = "move"
    /\ Cardinality({i \in 0..(MAX_FRAMES - 1) : animStore[i].data # 0}) = 2
    /\ \E i \in 0..(UNDO_MAX_SLOTS - 1) : undoStack[i].data # 0


\* ---------------------------------------------------------------------------
\* Flood fill, one span of the queue at a time
\* ---------------------------------------------------------------------------

LiveTolerances == {0, 4}

\* White canvases with black ink on any of the pixels (1,0), (2,0), (1,1),
\* (2,1), (0,2).
LiveInk == {2, 3, 5, 6, 7}
LiveCanvases ==
    {[y \in 1..FillH |-> [x \in 1..FillW |->
         IF (y - 1) * FillW + x \in ink THEN C_BLACK ELSE C_WHITE]] :
        ink \in SUBSET LiveInk}

LiveInputs ==
    {[pc |-> "tap", cv |-> cv, x |-> x, y |-> y, c |-> C_BLACK, pat |-> m,
      second |-> C_WHITE, tol |-> t] :
        cv \in LiveCanvases, x \in 0..(FillW - 1), y \in 0..(FillH - 1),
        m \in FillModes, t \in LiveTolerances}

FillLiveInit ==
    /\ ProgramStart
    /\ heapOther = 0
    /\ rle = [pc |-> "idle"]
    /\ tool \in LiveInputs

\* floodFill statement by statement: tool.pc is the loop the call is in.

\* The span queue scaled down with the canvas: LiveQueue entries for FillW by
\* FillH pixels.
LiveQueue == 8

fillRing(st, n) ==
    [st EXCEPT !.qn = n, !.q = [j \in 0..(n - 1) |-> <<0, 0, 0, 0>>]]

\* The spans in the queue.
fillPending(st) == (st.tail - st.head + st.qn) % st.qn

\* The queue never fills up, the two pushes of one segment included: the
\* scaled queue behaves as the one of Q_SIZE entries.
LiveQueueFits ==
    tool.pc \notin {"tap", "returned"} => fillPending(tool.st) <= LiveQueue - 3

\* The tests before the first loop.
FillEnter ==
    /\ tool.pc = "tap"
    /\ tool' = IF tool.tol = 0 /\ tool.cv[tool.y + 1][tool.x + 1] = tool.c
               THEN [pc |-> "returned", in |-> tool, cv |-> tool.cv]
               ELSE [pc |-> "seedLeft", in |-> tool,
                     st |-> fillRing(fillStart(tool.cv, FillW, FillH, tool.x, tool.y,
                                               tool.c, tool.pat, tool.second,
                                               tool.tol, tool.tol > 0, FALSE),
                                     LiveQueue)]
    /\ UNCHANGED <<progVars, rle>>

\* One test of the condition of loop lp: a round of its body, or on to the
\* statement at pc with the locals as the statements after the loop leave
\* them (after).
FillLoop(lp, after, pc) ==
    /\ tool.pc = lp
    /\ tool' = IF fillCond(tool.st, lp)
               THEN [tool EXCEPT !.st = fillBody(fillProbe(tool.st, lp), lp)]
               ELSE [tool EXCEPT !.st = after, !.pc = pc]
    /\ UNCHANGED <<progVars, rle>>

fillSeedPushes(st) == fillSeedDown(fillSeedUp(st))

fillSegPushes(st) == fillPushOpposite(fillPushSame(st))

FillSeedLeft == FillLoop("seedLeft", fillProbe(tool.st, "seedLeft"), "seedRight")

FillSeedRight ==
    FillLoop("seedRight", fillSeedSpan(fillProbe(tool.st, "seedRight")), "seedPaint")

FillSeedPaint ==
    FillLoop("seedPaint", fillSeedPushes(fillProbe(tool.st, "seedPaint")), "queue")

\* while (!Q_EMPTY) { Q_POP(s) ...
FillPopSpan ==
    /\ tool.pc = "queue"
    /\ tool.st.head # tool.st.tail
    /\ tool' = [tool EXCEPT !.st = Q_POP(tool.st), !.pc = "walk"]
    /\ UNCHANGED <<progVars, rle>>

\* while (i <= s.x2): a pixel that does not match is stepped over, one that
\* does starts a segment.
FillWalk ==
    /\ tool.pc = "walk"
    /\ tool' = IF ~(tool.st.i <= tool.st.x2) THEN [tool EXCEPT !.pc = "queue"]
               ELSE IF ~fmatch(tool.st, tool.st.i, tool.st.row)
               THEN [tool EXCEPT !.st = [fillTouch(tool.st, tool.st.i, tool.st.row)
                                            EXCEPT !.i = tool.st.i + 1]]
               ELSE [tool EXCEPT !.st = fillSegStart(fillTouch(tool.st, tool.st.i,
                                                               tool.st.row)),
                                 !.pc = "segment"]
    /\ UNCHANGED <<progVars, rle>>

FillSegPaint == FillLoop("segment", fillSegEnd(fillProbe(tool.st, "segment")), "left")

FillLeft == FillLoop("left", fillProbe(tool.st, "left"), "right")

FillRight == FillLoop("right", fillSegPushes(fillProbe(tool.st, "right")), "walk")

\* The queue is empty: the loop ends and floodFill returns.
FillReturn ==
    /\ tool.pc = "queue"
    /\ tool.st.head = tool.st.tail
    /\ tool' = [pc |-> "returned", in |-> tool.in, cv |-> tool.st.cv]
    /\ UNCHANGED <<progVars, rle>>

FillLiveNext ==
    \/ FillEnter \/ FillSeedLeft \/ FillSeedRight \/ FillSeedPaint
    \/ FillPopSpan \/ FillWalk \/ FillSegPaint \/ FillLeft \/ FillRight
    \/ FillReturn

\* floodFill runs to completion within one event: a step is taken whenever
\* one is possible.
SpecFillLive == FillLiveInit /\ [][FillLiveNext]_vars /\ WF_vars(FillLiveNext)

\* C26: floodFill terminates (its span queue becomes empty and it returns)
\* for every canvas, seed, tolerance and pattern mode.
C26_FillTerminates == <>(tool.pc = "returned")


\* ---------------------------------------------------------------------------
\* Flood fill with a tolerance
\* ---------------------------------------------------------------------------

\* A colour one blue step from white: colorDist565(NearWhite, C_WHITE) = 1.
NearWhite == C_WHITE - 1

TolCanvases ==
    {[y \in 1..FillH |-> [x \in 1..FillW |->
         IF (y - 1) * FillW + x \in ink THEN NearWhite ELSE C_WHITE]] :
        ink \in SUBSET (1..Min(FillInk, FillW * FillH))}

\* Taps of the bucket with fillTolerance 4, plain fill, the calloc of the
\* visited bitmap failing or not: black or white on white and near-white
\* pixels, and near-white on white and black pixels.
TolInputs ==
    {[pc |-> "fill", cv |-> cv, w |-> FillW, h |-> FillH, x |-> x, y |-> y,
      c |-> c, pat |-> 0, second |-> C_WHITE, tol |-> 4, okVis |-> ok] :
        cv \in TolCanvases, x \in 0..(FillW - 1), y \in 0..(FillH - 1),
        c \in {C_BLACK, C_WHITE}, ok \in BOOLEAN}
    \cup
    {[pc |-> "fill", cv |-> cv, w |-> FillW, h |-> FillH, x |-> x, y |-> y,
      c |-> NearWhite, pat |-> 0, second |-> C_WHITE, tol |-> 4, okVis |-> ok] :
        cv \in LiveCanvases, x \in 0..(FillW - 1), y \in 0..(FillH - 1),
        ok \in BOOLEAN}

TolInit ==
    /\ ProgramStart
    /\ heapOther = 0
    /\ rle = [pc |-> "idle"]
    /\ tool \in TolInputs

SpecFillTol == TolInit /\ [][FillNext]_vars

\* C27: with fillTolerance > 0 and no visited bitmap, floodFill ends and
\* leaves the canvas a fill with tolerance 0 from the same seed leaves.
C27_ExactFallback ==
    (tool.pc = "filled" /\ tool.tol > 0 /\ ~tool.okVis) =>
        /\ tool.ret # "spin"
        /\ tool.out = floodFill(tool.cv, tool.w, tool.h, tool.x, tool.y, tool.c,
                                tool.pat, tool.second, 0, TRUE).cv


\* ---------------------------------------------------------------------------
\* Playback
\* ---------------------------------------------------------------------------

\* C28: PLAY, the playback ticks and the touch that stops playback keep the
\* number of frames and the pixels of every frame, the frame that is live
\* when PLAY is pressed included, whether or not its canvas can be
\* committed.
C28_PlayKeepsFrames ==
    [][(last'.op \in {"play", "tick", "stop"} /\ steps' = steps + 1) =>
          /\ animFrameCount' = animFrameCount
          /\ AnimFrames' = AnimFrames]_vars


\* The playback ticks of loop() on the indices alone: n frames, the index and
\* direction as animPlay and an earlier playback left them.
PlayFrames == 8
MaxTicks == 16

PlayInit ==
    /\ ProgramStart
    /\ heapOther = 0
    /\ rle = [pc |-> "idle"]
    /\ tool \in {[pc |-> "playing", animFrameCount |-> n, animCurFrame |-> 0,
                  animPlayDir |-> d, animPingPong |-> pp, dir0 |-> d,
                  prev |-> 0, prevDir |-> d, t |-> 0] :
                    n \in 2..PlayFrames, d \in {1, -1}, pp \in BOOLEAN}

\* One tick: next computed, animCurFrame = next.
PlayTick ==
    /\ tool.pc = "playing"
    /\ tool.t < MaxTicks
    /\ tool' = [tool EXCEPT !.animCurFrame = animNextFrame(tool).next,
                            !.animPlayDir = animNextFrame(tool).dir,
                            !.prev = tool.animCurFrame,
                            !.prevDir = tool.animPlayDir,
                            !.t = tool.t + 1]
    /\ UNCHANGED <<progVars, rle>>

SpecPlay == PlayInit /\ [][PlayTick]_vars

\* The index shown after t ticks of a ping-pong playback of n frames that
\* started at frame 0: 0, 1, ..., n-1, n-2, ..., 1, 0, 1, ...
PingPongAt(n, t) ==
    IF t % (2 * n - 2) < n THEN t % (2 * n - 2) ELSE (2 * n - 2) - (t % (2 * n - 2))

\* C29: every playback tick keeps 0 <= animCurFrame < animFrameCount; with
\* ping-pong off the index after t ticks is t mod n, with ping-pong on it is
\* 0, 1, ..., n-1, n-2, ..., 1, 0, 1, ...: each tick moves the index by the
\* direction, which reverses exactly at index n-1 and at index 0, and no
\* frame is shown twice in a row, for n in 2..PlayFrames and either initial
\* direction.
C29_TickSequence ==
    tool.pc = "playing" =>
        /\ 0 <= tool.animCurFrame /\ tool.animCurFrame < tool.animFrameCount
        /\ ~tool.animPingPong =>
              /\ tool.animCurFrame = tool.t % tool.animFrameCount
              /\ tool.animPlayDir = tool.dir0
        /\ tool.animPingPong =>
              /\ tool.animCurFrame = PingPongAt(tool.animFrameCount, tool.t)
              /\ tool.t > 0 =>
                    /\ tool.animCurFrame = tool.prev + tool.animPlayDir
                    /\ tool.animPlayDir # tool.prevDir <=>
                          \/ tool.prev = tool.animFrameCount - 1 /\ tool.prevDir = 1
                          \/ tool.prev = 0 /\ tool.prevDir = -1

\* Eight frames played back and forth from a playback direction of -1: the
\* tick after the second visit of frame 0.
C29_Witness ==
    /\ tool.pc = "playing" /\ tool.animPingPong
    /\ tool.animFrameCount = PlayFrames /\ tool.dir0 = -1
    /\ tool.t = 2 * PlayFrames - 1 /\ tool.prev = 0 /\ tool.animCurFrame = 1


\* ---------------------------------------------------------------------------
\* Frame switching
\* ---------------------------------------------------------------------------

\* The way back from frame j, just made live, to frame i: animSyncToFrame(i)
\* on state s must leave cv on the canvas, the pixels pj in frame j, slot i
\* empty and slot j filled.
SwitchedBack(s, i, j, cv, pj) ==
    s.ret = "true" =>
        /\ s.animCurFrame = i
        /\ s.canvas = cv
        /\ FramePixels(s, j) = pj
        /\ s.animStore[i].data = 0
        /\ s.animStore[j].data # 0

\* C30: a switch from frame i to frame j whose commit succeeds leaves the
\* pixels of every frame as they were, slot j empty and slot i holding its
\* blob; switching back at once puts the canvas of before the first switch
\* on the canvas again, leaves frame j's pixels unchanged, slot i empty and
\* slot j holding its blob.
C30_SwitchRoundTrip ==
    [][(last'.op = "sync" /\ last'.ret = "true" /\ steps' = steps + 1) =>
          /\ animCurFrame' # animCurFrame
          /\ AnimFrames' = AnimFrames
          /\ animStore'[animCurFrame'].data = 0
          /\ animStore'[animCurFrame].data # 0
          /\ SwitchedBack(animSyncToFrame(Cur', animCurFrame, TRUE), animCurFrame,
                          animCurFrame', canvas, FramePixels(Cur, animCurFrame'))]_vars

\* A switch between two frames with different pixels, neither of them white,
\* after which the way back can be committed.
C30_Witness ==
    /\ last.op = "sync" /\ last.ret = "true"
    /\ canvas # Uniform(NPIX, C_WHITE)
    /\ \E i \in 0..(animFrameCount - 1) :
          /\ i # animCurFrame
          /\ animStore[i].data # 0
          /\ FramePixels(Cur, i) \notin {canvas, Uniform(NPIX, C_WHITE)}
          /\ animSyncToFrame(Cur, i, TRUE).ret = "true"


\* ---------------------------------------------------------------------------
\* Project files: save, then load
\* ---------------------------------------------------------------------------

\* The project in state s is the one of n frames with pixels fr, rate fps and
\* delay table dl, frame 0 live.
Restored(s, n, fr, fps, dl) ==
    /\ s.ret \in {"loaded", "empty"}
    /\ s.animFrameCount = n
    /\ s.animCurFrame = 0
    /\ s.animFPS = fps
    /\ s.animFrameDelay = dl
    /\ \A k \in 0..(n - 1) : FramePixels(s, k) = fr[k]

\* C31: loadCYD of the file a saveCYD has just written, every allocation
\* succeeding, restores the project as it was before the save: the frame
\* count, animFPS, the delay table and the pixels of every frame, frame 0
\* live.
C31_SaveLoadRestores ==
    [][(last'.op = "saveCYD" /\ last'.ret = "saved" /\ steps' = steps + 1) =>
          Restored(loadCYD(Cur', sdFile', MAX_FRAMES), animFrameCount, AnimFrames,
                   animFPS, animFrameDelay)]_vars


\* ---------------------------------------------------------------------------
\* The heap reserve of the undo and redo rings
\* ---------------------------------------------------------------------------

\* The state in which undoPush makes its last heap budget test for a
\* snapshot of sz bytes: after the eviction of the oldest entry when the
\* first test failed.
undoPushTested(s, sz) == IF BelowReserve(s, sz) THEN undoDropOldest(s) ELSE s

\* The dry-run size of a snapshot of the canvas.
SnapshotSize == rleCompress(canvas, FALSE, 0).ret

\* C32: no snapshot is added to the undo or redo ring when free heap minus
\* the snapshot size, taken in 32-bit unsigned arithmetic, is below
\* UNDO_HEAP_RESERVE: not by undoPush, not by undoPerform for the redo
\* snapshot, not by redoPerform for the undo snapshot.
C32_ReserveKept ==
    [][(steps' = steps + 1) =>
          /\ (last'.op = "stroke" /\ last'.ret = "stored") =>
                ~BelowReserve(undoPushTested(Cur, SnapshotSize), SnapshotSize)
          /\ (last'.op \in {"undo", "redo"} /\ last'.ret = "saved") =>
                ~BelowReserve(Cur, SnapshotSize)]_vars


\* ---------------------------------------------------------------------------
\* The undo snapshot of each edit of the main screen
\* ---------------------------------------------------------------------------

\* One sitting at the main screen: at most MaxEdit touch events on the canvas
\* of SelW by SelH pixels, brush size 1, solid pattern, no mirror, tolerance
\* 0. The stylus is lifted between a stroke and the next tap. The record
\* keeps, for the logical action in progress, the canvas it began on
\* (startCv), the number of calls of undoPush (pushes) and the canvas the
\* first of them saw (pushedCv).
MaxEdit == 4

EditTools ==
    {"TOOL_PEN", "TOOL_FILL", "TOOL_COL_REPLACE", "TOOL_WAND", "TOOL_SEL_RECT",
     "TOOL_LASSO", "TOOL_LINE"}

\* The actions the canvas is changed by.
EditOps == {"stroke", "fill", "replace", "shape", "capture", "lasso", "wand", "place", "clear"}

EditStart(cut, a, zoom, color) ==
    [pc |-> "edit", st |-> HoldStart(cut), active |-> a, color |-> color, zoom |-> zoom,
     n |-> 0, op |-> "start", pushes |-> 0, pushedCv |-> <<>>, startCv |-> SelCanvas,
     lastDrawX |-> -1, lastDrawY |-> -1, wasDrawing |-> FALSE,
     shapeHasOrigin |-> FALSE, shapeOriginX |-> 0, shapeOriginY |-> 0,
     screen |-> "SCR_MAIN"]

EditInit ==
    /\ ProgramStart
    /\ heapOther = 0
    /\ rle = [pc |-> "idle"]
    /\ tool \in {EditStart(cut, a, zoom, C_BLACK) :
                    cut \in BOOLEAN, a \in EditTools, zoom \in BOOLEAN}

\* An event that begins a logical action.
Began(t) == [t EXCEPT !.n = @ + 1, !.pushes = 0, !.pushedCv = <<>>, !.startCv = t.st.cv]

\* The call undoPush() as an event handler makes it: counted, with the
\* canvas it snapshots.
undoPushCalled(t) ==
    [t EXCEPT !.pushes = @ + 1, !.pushedCv = IF t.pushes = 0 THEN t.st.cv ELSE @]

Edited(op, t) ==
    /\ tool' = [t EXCEPT !.op = op]
    /\ UNCHANGED <<progVars, rle>>

EditReady == tool.pc = "edit" /\ tool.n < MaxEdit /\ tool.screen = "SCR_MAIN"

\* No stroke in progress: the release handler has run since the last sample.
EditLifted == EditReady /\ tool.lastDrawX < 0 /\ ~tool.wasDrawing

\* The pen of brush size 1 on the canvas cv.
EditPen(t) ==
    [Brush(t.st.w, t.st.h, 1, 0, FALSE, FALSE) EXCEPT !.cv = t.st.cv, !.color = t.color]

\* loop(), a sample of the smooth drawing path at (cx, cy): the first sample
\* of a stroke calls undoPush() and toolApply(), a later one toolApplyLine()
\* when it is minDist away from the last.
EditStroke(cx, cy) ==
    /\ EditReady /\ tool.active = "TOOL_PEN"
    /\ IF tool.lastDrawX < 0
       THEN Edited("stroke",
                   [undoPushCalled(Began(tool)) EXCEPT
                       !.st.cv = stampMirrored(EditPen(tool), cx, cy).cv,
                       !.lastDrawX = cx, !.lastDrawY = cy, !.wasDrawing = TRUE])
       ELSE IF (cx - tool.lastDrawX) * (cx - tool.lastDrawX)
               + (cy - tool.lastDrawY) * (cy - tool.lastDrawY) < (IF tool.zoom THEN 2 ELSE 8)
       THEN Edited("none", [tool EXCEPT !.n = @ + 1])
       ELSE Edited("stroke",
                   [tool EXCEPT
                       !.n = @ + 1,
                       !.st.cv = toolApplyLine(EditPen(tool), tool.lastDrawX, tool.lastDrawY,
                                               cx, cy).cv,
                       !.lastDrawX = cx, !.lastDrawY = cy, !.wasDrawing = TRUE])

\* loop(), a sample while the lasso outline is drawn: points are collected.
EditLassoDraw ==
    /\ EditReady /\ tool.active = "TOOL_LASSO" /\ tool.st.selPhase = "SEL_LASSO_DRAW"
    /\ ~tool.wasDrawing
    /\ Edited("outline", [tool EXCEPT !.n = @ + 1, !.wasDrawing = TRUE])

\* loop(), the stylus lifted after drawing. An outline of three or more
\* points (enough) is captured: undoPush(), selCaptureLasso(), selPhase =
\* SEL_LASSO_PLACE; a shorter one is dropped.
EditRelease(enough, b, whole, okMask, okBuf) ==
    /\ EditReady /\ tool.wasDrawing
    /\ IF tool.active = "TOOL_LASSO" /\ tool.st.selPhase = "SEL_LASSO_DRAW" /\ enough
       THEN Edited("lasso",
                   [undoPushCalled(Began(tool)) EXCEPT
                       !.st = [selCaptureLasso(tool.st, b,
                                   IF whole
                                   THEN 0..((b[3] - b[1] + 1) * (b[4] - b[2] + 1) - 1)
                                   ELSE {0, (b[3] - b[1] + 1) * (b[4] - b[2] + 1) - 1},
                                   okMask, okBuf)
                               EXCEPT !.selPhase = "SEL_LASSO_PLACE"],
                       !.lastDrawX = -1, !.lastDrawY = -1, !.wasDrawing = FALSE])
       ELSE Edited("release",
                   [tool EXCEPT
                       !.n = @ + 1,
                       !.st.selPhase = IF tool.active = "TOOL_LASSO"
                                          /\ tool.st.selPhase = "SEL_LASSO_DRAW"
                                       THEN "SEL_NONE" ELSE @,
                       !.lastDrawX = -1, !.lastDrawY = -1, !.wasDrawing = FALSE])

\* loop(), a tap of the bucket: undoPush(), floodFill(cx, cy, activeColor).
EditFill(cx, cy) ==
    /\ EditLifted /\ tool.active = "TOOL_FILL"
    /\ Edited("fill",
              [undoPushCalled(Began(tool)) EXCEPT
                  !.st.cv = floodFill(tool.st.cv, tool.st.w, tool.st.h, cx, cy, tool.color,
                                      0, C_WHITE, 0, TRUE).cv])

\* loop(), a tap of the colour replace tool: when the tapped colour is not
\* the active one, undoPush() and every matching pixel recoloured.
EditReplace(cx, cy) ==
    /\ EditLifted /\ tool.active = "TOOL_COL_REPLACE"
    /\ IF tool.st.cv[cy + 1][cx + 1] = tool.color
       THEN Edited("none", [tool EXCEPT !.n = @ + 1])
       ELSE Edited("replace",
                   [undoPushCalled(Began(tool)) EXCEPT
                       !.st.cv = [y \in 1..tool.st.h |-> [x \in 1..tool.st.w |->
                                     IF colorMatch(0, tool.st.cv[y][x], tool.st.cv[cy + 1][cx + 1])
                                     THEN tool.color ELSE tool.st.cv[y][x]]]])

\* loop(), a tap of the wand: undoPush(), wandSelect(cx, cy).
EditWand(cx, cy, okVis, ok1, ok2) ==
    /\ EditLifted /\ tool.active = "TOOL_WAND"
    /\ Edited("wand",
              [undoPushCalled(Began(tool)) EXCEPT
                  !.st = wandSelect(tool.st, cx, cy, 0, okVis, ok1, ok2)])

\* loop(), a tap of the rectangle selection with no corner yet.
EditCorner1(cx, cy) ==
    /\ EditLifted /\ tool.active = "TOOL_SEL_RECT"
    /\ tool.st.selPhase \in {"SEL_NONE", "SEL_CORNER1"}
    /\ Edited("corner1", [tool EXCEPT !.n = @ + 1, !.st.selX1 = cx, !.st.selY1 = cy,
                                      !.st.selPhase = "SEL_CORNER2"])

\* loop(), the tap of the second corner: the corners put in order,
\* undoPush(), selCaptureRect(), selPhase = SEL_PLACE.
EditCorner2(cx, cy, ok1, ok2) ==
    /\ EditLifted /\ tool.active = "TOOL_SEL_RECT"
    /\ tool.st.selPhase = "SEL_CORNER2"
    /\ Edited("capture",
              [undoPushCalled(Began(tool)) EXCEPT
                  !.st = [selCaptureRect(
                             [tool.st EXCEPT
                                 !.selX1 = IF tool.st.selX1 > cx THEN cx ELSE tool.st.selX1,
                                 !.selX2 = IF tool.st.selX1 > cx THEN tool.st.selX1 ELSE cx,
                                 !.selY1 = IF tool.st.selY1 > cy THEN cy ELSE tool.st.selY1,
                                 !.selY2 = IF tool.st.selY1 > cy THEN tool.st.selY1 ELSE cy],
                             ok1, ok2)
                          EXCEPT !.selPhase = "SEL_PLACE"]])

\* loop(), the first tap of the lasso: selPhase = SEL_LASSO_DRAW.
EditLassoStart ==
    /\ EditLifted /\ tool.active = "TOOL_LASSO"
    /\ tool.st.selPhase = "SEL_NONE"
    /\ Edited("outline", [tool EXCEPT !.n = @ + 1, !.st.selPhase = "SEL_LASSO_DRAW"])

\* The held selection as selPlace(destX, destY) leaves it on a tap at
\* (cx, cy): inside the box it goes back where it was.
EditPlaced(st, cx, cy) ==
    IF cx >= st.selX1 /\ cx <= st.selX2 /\ cy >= st.selY1 /\ cy <= st.selY2
    THEN selPlace(st, st.selX1, st.selY1)
    ELSE selPlace(st, cx, cy)

\* loop(), a tap of the rectangle or the lasso tool in its place phase:
\* selPlace() and nothing before it.
EditPlace(cx, cy) ==
    /\ EditLifted
    /\ \/ tool.active = "TOOL_SEL_RECT" /\ tool.st.selPhase = "SEL_PLACE"
       \/ tool.active = "TOOL_LASSO" /\ tool.st.selPhase = "SEL_LASSO_PLACE"
    /\ Edited(IF EditPlaced(tool.st, cx, cy).ret = "placed" THEN "place" ELSE "none",
              [Began(tool) EXCEPT !.st = EditPlaced(tool.st, cx, cy)])

\* handleMainTouch, a tap of the line tool: the first sets the origin, the
\* second calls selCancel(), undoPush() and drawShapeLine().
EditShape(cx, cy) ==
    /\ EditLifted /\ tool.active = "TOOL_LINE"
    /\ IF ~tool.shapeHasOrigin
       THEN Edited("origin", [tool EXCEPT !.n = @ + 1, !.shapeHasOrigin = TRUE,
                                          !.shapeOriginX = cx, !.shapeOriginY = cy])
       ELSE Edited("shape",
                   [undoPushCalled(Began([tool EXCEPT !.st = selCancel(tool.st),
                                                      !.shapeHasOrigin = FALSE]))
                    EXCEPT !.st.cv = [y \in 1..tool.st.h |-> [x \in 1..tool.st.w |->
                              IF canvasIndex(tool.st.w, x - 1, y - 1)
                                    \in canvasLine(tool.st.w, tool.st.h, tool.shapeOriginX,
                                                   tool.shapeOriginY, cx, cy)
                              THEN tool.color ELSE tool.st.cv[y][x]]]])

\* handleToolSelectTouch, a tool chosen: selCancel(), the origin dropped.
EditTool(a) ==
    /\ EditLifted /\ a # tool.active
    /\ Edited("tool", [tool EXCEPT !.n = @ + 1, !.active = a, !.st = selCancel(tool.st),
                                   !.shapeHasOrigin = FALSE])

\* handleMainTouch, the CLR button: the confirm screen for CA_CLR.
EditClearAsk ==
    /\ EditLifted
    /\ Edited("ask", [tool EXCEPT !.n = @ + 1, !.screen = "SCR_CONFIRM"])

\* handleConfirmTouch, YES for CA_CLR: undoPush(), clearCanvas(C_WHITE), back
\* to the main screen.
EditClearYes ==
    /\ tool.pc = "edit" /\ tool.n < MaxEdit /\ tool.screen = "SCR_CONFIRM"
    /\ Edited("clear",
              [undoPushCalled(Began(tool)) EXCEPT
                  !.st.cv = [y \in 1..tool.st.h |-> [x \in 1..tool.st.w |-> C_WHITE]],
                  !.screen = "SCR_MAIN"])

EditPoints == (0..(SelW - 1)) \X (0..(SelH - 1))

EditNext ==
    \/ \E p \in EditPoints : EditStroke(p[1], p[2])
    \/ EditLassoDraw
    \/ \E enough \in BOOLEAN, b \in {c \in HoldBoxes : c[3] < SelW /\ c[4] < SelH},
          whole \in BOOLEAN, okMask \in BOOLEAN, okBuf \in BOOLEAN :
          EditRelease(enough, b, whole, okMask, okBuf)
    \/ \E p \in EditPoints : EditFill(p[1], p[2])
    \/ \E p \in EditPoints : EditReplace(p[1], p[2])
    \/ \E p \in EditPoints, okVis \in BOOLEAN, ok1 \in BOOLEAN, ok2 \in BOOLEAN :
          EditWand(p[1], p[2], okVis, ok1, ok2)
    \/ \E p \in EditPoints : EditCorner1(p[1], p[2])
    \/ \E p \in EditPoints, ok1 \in BOOLEAN, ok2 \in BOOLEAN : EditCorner2(p[1], p[2], ok1, ok2)
    \/ EditLassoStart
    \/ \E p \in EditPoints : EditPlace(p[1], p[2])
    \/ \E p \in EditPoints : EditShape(p[1], p[2])
    \/ \E a \in EditTools : EditTool(a)
    \/ EditClearAsk
    \/ EditClearYes

SpecEdit == EditInit /\ [][EditNext]_vars

\* C33: each logical action that changes the canvas on the main screen (a
\* stroke, a fill, a colour replace, a shape, a selection capture, a
\* selection placement, a confirmed clear) calls undoPush exactly once, in
\* the event that begins it and before its first pixel write: the snapshot
\* is of the canvas the action began on.
C33_OnePushPerAction ==
    (tool.pc = "edit" /\ tool.op \in EditOps) =>
        tool.pushes = 1 /\ tool.pushedCv = tool.startCv


\* ---------------------------------------------------------------------------
\* The wand's selection
\* ---------------------------------------------------------------------------

\* Wand inputs: the canvases of the fill (white with black ink, and the
\* full-size comb with the seed on its spine), every seed, both cut modes,
\* fillTolerance 0, no selection held, and the outcomes ok of the calloc of
\* vis, the malloc of selBuf and the calloc of selMask (a failure of each on
\* one canvas).
WandStart(cv, w, h, x, y, cut, ok) ==
    [pc |-> "wand", cv |-> cv, w |-> w, h |-> h, x |-> x, y |-> y, ok |-> ok,
     st |-> [HoldStart(cut) EXCEPT !.cv = cv, !.w = w, !.h = h]]

WandInputs ==
    {WandStart(cv, FillW, FillH, x, y, cut, <<TRUE, TRUE, TRUE>>) :
        cv \in FillCanvases, x \in 0..(FillW - 1), y \in 0..(FillH - 1), cut \in BOOLEAN}
    \cup
    {WandStart(CHOOSE cv \in FillCanvases : cv[1][1] = C_BLACK /\ cv[1][2] = C_WHITE,
               FillW, FillH, x, y, cut, ok) :
        x \in 0..(FillW - 1), y \in 0..(FillH - 1), cut \in BOOLEAN,
        ok \in {<<FALSE, TRUE, TRUE>>, <<TRUE, FALSE, TRUE>>, <<TRUE, TRUE, FALSE>>}}
    \cup
    {WandStart(CombCanvas, FULL_W, FULL_H, FULL_W - 1, 100, TRUE, <<TRUE, TRUE, TRUE>>)}

WandInit ==
    /\ ProgramStart
    /\ heapOther = 0
    /\ rle = [pc |-> "idle"]
    /\ tool \in WandInputs

\* loop(), a tap of the wand at the seed: wandSelect(cx, cy).
WandTap ==
    /\ tool.pc = "wand"
    /\ \E r \in {wandSelect(tool.st, tool.x, tool.y, 0, tool.ok[1], tool.ok[2], tool.ok[3])} :
          tool' = [tool EXCEPT !.pc = "tapped", !.st = r]
    /\ UNCHANGED <<progVars, rle>>

SpecWand == WandInit /\ [][WandTap]_vars

\* The canvas pixels the selection st holds: the set bits of its mask, at
\* their place on the canvas.
WandMasked(st) ==
    {p \in (0..(st.w - 1)) \X (0..(st.h - 1)) :
        selMaskGet(st, p[1] - st.selX1, p[2] - st.selY1)}

\* The selection st is the set C of pixels of the canvas cv: its mask, its
\* box and the pixels of its buffer.
WandHolds(st, cv, C) ==
    /\ WandMasked(st) = C
    /\ \A p \in C : /\ st.selX1 <= p[1] /\ p[1] <= st.selX2
                    /\ st.selY1 <= p[2] /\ p[2] <= st.selY2
    /\ \E p \in C : p[1] = st.selX1
    /\ \E p \in C : p[1] = st.selX2
    /\ \E p \in C : p[2] = st.selY1
    /\ \E p \in C : p[2] = st.selY2
    /\ st.selW = st.selX2 - st.selX1 + 1 /\ st.selH = st.selY2 - st.selY1 + 1
    /\ \A p \in C : SelPixel(st, p[1] - st.selX1, p[2] - st.selY1) = cv[p[2] + 1][p[1] + 1]

\* The canvas cv after a capture of the set C of its pixels.
WandLeft(cv, w, h, cut, C) ==
    [y \in 1..h |-> [x \in 1..w |->
        IF cut /\ <<x - 1, y - 1>> \in C THEN C_WHITE ELSE cv[y][x]]]

\* No pixel of the seed's colour next to a selected pixel is left out.
WandClosed(t) ==
    \A p \in (0..(t.w - 1)) \X (0..(t.h - 1)) :
        selMaskGet(t.st, p[1] - t.st.selX1, p[2] - t.st.selY1) =>
            \A n \in Neighbours(p, t.w, t.h) :
                t.cv[n[2] + 1][n[1] + 1] = t.cv[t.y + 1][t.x + 1]
                    => selMaskGet(t.st, n[1] - t.st.selX1, n[2] - t.st.selY1)

WandCaptured(t, C) ==
    /\ WandHolds(t.st, t.cv, C)
    /\ t.st.cv = WandLeft(t.cv, t.w, t.h, t.st.selCutMode, C)

\* C34: wandSelect(x, y) with fillTolerance 0 selects exactly the
\* 4-connected component of the seed: the mask is that set, the box its
\* extent, the buffer holds its pixels, and in cut mode exactly its pixels
\* are whitened on the canvas (none in copy mode); so no pixel of the seed's
\* colour next to a selected pixel is left out.
C34_WandSelectsComponent ==
    (tool.pc = "tapped" /\ tool.st.ret = "captured") =>
        WandClosed(tool) /\ WandCaptured(tool, Component(tool))


\* A wand selection is held: wandSelect has just captured it.
WandHeld(t) ==
    /\ t.pc = "hold" /\ t.op = "wand"
    /\ t.st.ret = "captured" /\ t.st.selPhase = "SEL_PLACE" /\ t.st.hasBuf

\* C35: after a successful wandSelect the next tap on the canvas places the
\* held selection with selPlace (at the tap, or where it was for a tap
\* inside the box) and does not discard it.
C35_WandThenPlace ==
    [][(WandHeld(tool) /\ tool'.op # "tool") =>
          (tool'.op = "place" /\ tool'.st.ret = "placed")]_vars


\* ---------------------------------------------------------------------------
\* The shape of the undo and redo rings
\* ---------------------------------------------------------------------------

\* The slots of the count entries that cyclically precede top.
RingHeld(count, top) ==
    {(top - k + UNDO_MAX_SLOTS) % UNDO_MAX_SLOTS : k \in 1..count}

\* A ring of count entries below top: these slots hold a blob each, the
\* others are null.
RingShaped(s, stack, count, top) ==
    /\ count \in 0..UNDO_MAX_SLOTS
    /\ top \in 0..(UNDO_MAX_SLOTS - 1)
    /\ \A i \in 0..(UNDO_MAX_SLOTS - 1) :
          IF i \in RingHeld(count, top)
          THEN stack[i].data # 0 /\ stack[i].size > 0 /\ Len(Blob(s, stack[i])) = stack[i].size
          ELSE stack[i] = NullSlot

\* The slot undoPerform or redoPerform decompresses holds a blob, and a
\* push leaves every entry but the oldest in its slot.
RingStep ==
    (steps' = steps + 1) =>
        /\ (last'.op = "undo" /\ last'.ret # "none") =>
              undoStack[(undoTop - 1 + UNDO_MAX_SLOTS) % UNDO_MAX_SLOTS].data # 0
        /\ (last'.op = "redo" /\ last'.ret # "none") =>
              redoStack[(redoTop - 1 + UNDO_MAX_SLOTS) % UNDO_MAX_SLOTS].data # 0
        /\ (last'.op = "stroke") =>
              /\ undoCount' >= undoCount - 1
              /\ \A i \in RingHeld(undoCount - 1, undoTop) :
                    /\ undoStack'[i] = undoStack[i]
                    /\ Blob(Cur', undoStack'[i]) = Blob(Cur, undoStack[i])

\* C36: in every reachable state the undo ring has 0..UNDO_MAX_SLOTS entries
\* and a top inside the ring, the undoCount slots cyclically preceding
\* undoTop hold a blob each and every other slot is null, and the same
\* holds of the redo ring; so undoPerform and redoPerform never decompress
\* an empty slot, and an eviction under heap pressure removes the oldest
\* entry only.
C36_RingShape ==
    /\ [](/\ RingShaped(Cur, undoStack, undoCount, undoTop)
          /\ RingShaped(Cur, redoStack, redoCount, redoTop))
    /\ [][RingStep]_vars

\* A stroke stored its snapshot in a full ring that has wrapped around, the
\* oldest entry overwritten.
C36_Witness ==
    /\ last.op = "stroke" /\ last.ret = "stored"
    /\ undoCount = UNDO_MAX_SLOTS /\ undoTop = 1
    /\ steps >= UNDO_MAX_SLOTS + 1


\* ---------------------------------------------------------------------------
\* The frame count, the live index and the playback rate
\* ---------------------------------------------------------------------------

\* C37: between events 1 <= animFrameCount <= MAX_FRAMES, 0 <= animCurFrame
\* < animFrameCount, and every animStore slot at an index >= animFrameCount
\* is empty, after any sequence of add, delete, move, swap, sync, play, save
\* and load, the loads that stop part-way included.
C37_FrameBounds ==
    /\ 1 <= animFrameCount /\ animFrameCount <= MAX_FRAMES
    /\ 0 <= animCurFrame /\ animCurFrame < animFrameCount
    /\ \A i \in animFrameCount..(MAX_FRAMES - 1) : animStore[i] = NullSlot


\* A project file of two frames was loaded part-way: its first frame is
\* in and live, the second is not.
C37_Witness ==
    /\ last.op = "loadCYD" /\ last.ret = "loaded"
    /\ hist.phase = "loadCYD" /\ ~hist.whole
    /\ animFrameCount = 1 /\ animCurFrame = 0
    /\ canvas = Uniform(NPIX, C_BLACK)

\* ------------------------------------------------------------------------
\* Playback rate
\* ------------------------------------------------------------------------

ANIM_FPS_MIN == 1

ANIM_FPS_MAX == 12

\* loop(), playback tick: frameInterval is the delay of the live frame when
\* it is set, else 1000UL / animFPS, a division that traps when animFPS is 0.
frameIntervalDivides(s) == s.animFrameDelay[s.animCurFrame] = 0

\* A playback tick is about to divide by an animFPS of 0.
PlaybackTraps ==
    /\ currentScreen = "SCR_ANIM" /\ animPlaying
    /\ frameIntervalDivides(Cur)
    /\ animFPS = 0

\* C38: in every reachable state ANIM_FPS_MIN <= animFPS <= ANIM_FPS_MAX, so
\* that the playback tick never divides by zero, also after loadCYD of any
\* file with a valid magic and valid dimensions.
C38_FpsInRange ==
    /\ ANIM_FPS_MIN <= animFPS /\ animFPS <= ANIM_FPS_MAX
    /\ ~PlaybackTraps

\* ------------------------------------------------------------------------
\* The place phases
\* ------------------------------------------------------------------------

\* The selection state st holds a selection.
SelectionHeld(st) ==
    /\ st.hasBuf /\ st.hasMask
    /\ st.selW >= 1 /\ st.selH >= 1

\* C39: whenever selPhase is SEL_PLACE or SEL_LASSO_PLACE a selection is
\* held (selBuf and selMask allocated, selW >= 1, selH >= 1); and after a
\* rectangle or lasso capture that failed for lack of memory selPhase is
\* SEL_NONE and the canvas is as it was before the event.
C39_PlaceHoldsSelection ==
    tool.pc = "hold" =>
        /\ tool.st.selPhase \in {"SEL_PLACE", "SEL_LASSO_PLACE"} => SelectionHeld(tool.st)
        /\ (tool.op \in {"rect", "lasso"} /\ ~tool.st.hasBuf) =>
              /\ tool.st.selPhase = "SEL_NONE"
              /\ tool.st.cv = tool.prev.cv

\* ------------------------------------------------------------------------
\* Undo and redo across frame changes
\* ------------------------------------------------------------------------

\* The events of one sitting: at most MaxFrameOps strokes, undo and redo
\* taps and operations of the animation screen, from the state after
\* setup().  Every frame has an identity (ids, frame 0 first), and every
\* ring slot the identity of the frame that was live when its snapshot was
\* taken (utag, rtag); from is the identity behind the snapshot the last
\* undo or redo put on the canvas.
MaxFrameOps == 5

FramesStart ==
    [canvas |-> Uniform(NPIX, C_WHITE), heap |-> [a \in Addrs |-> <<>>],
     heapOther |-> 0, ub |-> FALSE,
     undoStack |-> [i \in 0..(UNDO_MAX_SLOTS - 1) |-> NullSlot],
     undoCount |-> 0, undoTop |-> 0,
     redoStack |-> [i \in 0..(UNDO_MAX_SLOTS - 1) |-> NullSlot],
     redoCount |-> 0, redoTop |-> 0,
     animStore |-> [i \in 0..(MAX_FRAMES - 1) |-> NullSlot],
     animFrameCount |-> 1, animCurFrame |-> 0, animFPS |-> 6,
     animFrameDelay |-> [i \in 0..(MAX_FRAMES - 1) |-> 0],
     animPlaying |-> FALSE, animPingPong |-> FALSE, animPlayDir |-> 1,
     currentScreen |-> "SCR_MAIN", sdFile |-> NoFile, ret |-> "none"]

FramesInit ==
    /\ ProgramStart
    /\ heapOther = 0
    /\ rle = [pc |-> "idle"]
    /\ tool = [pc |-> "frames", s |-> FramesStart,
               ids |-> [i \in 0..0 |-> 0], fresh |-> 1,
               utag |-> [i \in 0..(UNDO_MAX_SLOTS - 1) |-> -1],
               rtag |-> [i \in 0..(UNDO_MAX_SLOTS - 1) |-> -1],
               n |-> 0, op |-> "start", from |-> -1]

\* The identity of the live frame.
LiveId(t) == t.ids[t.s.animCurFrame]

\* The slot of the newest entry of a ring whose top index is top.
RingNewest(top) == (top - 1 + UNDO_MAX_SLOTS) % UNDO_MAX_SLOTS

\* The sequence f with x put in after its entry at `at`.
InsertedFrames(f, at, x) ==
    [i \in 0..Cardinality(DOMAIN f) |->
        IF i <= at THEN f[i] ELSE IF i = at + 1 THEN x ELSE f[i - 1]]

FramesReady == tool.pc = "frames" /\ tool.n < MaxFrameOps

FramesMain == FramesReady /\ tool.s.currentScreen = "SCR_MAIN"

FramesIdle ==
    FramesReady /\ tool.s.currentScreen = "SCR_ANIM" /\ ~tool.s.animPlaying

\* An operation of the animation screen or a screen change: the result r,
\* the frames' identities ids afterwards.
FramesOp(op, r, ids) ==
    /\ tool' = [tool EXCEPT !.s = r, !.ids = ids, !.n = @ + 1, !.op = op, !.from = -1]
    /\ UNCHANGED <<progVars, rle>>

\* loop(), first sample of a stroke: undoPush(), then the stamp.  A stored
\* snapshot is one of the live frame.
FramesStroked(r, p, c) ==
    /\ tool' = [tool EXCEPT !.s = canvasSet(r, p, c), !.n = @ + 1, !.op = "stroke",
                            !.from = -1,
                            !.utag = IF r.ret = "stored"
                                     THEN [@ EXCEPT ![RingNewest(r.undoTop)] = LiveId(tool)]
                                     ELSE @]
    /\ UNCHANGED <<progVars, rle>>

FramesStroke(p, c, ok) ==
    /\ FramesMain
    /\ \E r \in {undoPush(tool.s, ok)} : FramesStroked(r, p, c)

\* handleMainTouch, UNDO: the snapshot saved on the redo ring is one of the
\* live frame, the one put on the canvas is the newest of the undo ring.
FramesUndone(r) ==
    /\ tool' = [tool EXCEPT !.s = r, !.n = @ + 1, !.op = "undo",
                            !.from = tool.utag[RingNewest(tool.s.undoTop)],
                            !.rtag = IF r.ret = "saved"
                                     THEN [@ EXCEPT ![RingNewest(r.redoTop)] = LiveId(tool)]
                                     ELSE @]
    /\ UNCHANGED <<progVars, rle>>

FramesUndo(ok) ==
    /\ FramesMain
    /\ tool.s.undoCount > 0
    /\ \E r \in {undoPerform(tool.s, ok)} : FramesUndone(r)

\* handleMainTouch, REDO.
FramesRedone(r) ==
    /\ tool' = [tool EXCEPT !.s = r, !.n = @ + 1, !.op = "redo",
                            !.from = tool.rtag[RingNewest(tool.s.redoTop)],
                            !.utag = IF r.ret = "saved"
                                     THEN [@ EXCEPT ![RingNewest(r.undoTop)] = LiveId(tool)]
                                     ELSE @]
    /\ UNCHANGED <<progVars, rle>>

FramesRedo(ok) ==
    /\ FramesMain
    /\ tool.s.redoCount > 0
    /\ \E r \in {redoPerform(tool.s, ok)} : FramesRedone(r)

\* handleMainTouch, ANIM button.
FramesGoAnim(ok) ==
    /\ FramesMain
    /\ FramesOp("commit", [animCommitFrame(tool.s, ok) EXCEPT !.currentScreen = "SCR_ANIM"],
                tool.ids)

\* handleAnimTouch, DRAW.
FramesDraw ==
    /\ FramesIdle
    /\ FramesOp("draw", [tool.s EXCEPT !.currentScreen = "SCR_MAIN"], tool.ids)

\* handleAnimTouch, filmstrip tap or frame button on another frame.
FramesNav(idx, ok) ==
    /\ FramesIdle
    /\ idx < tool.s.animFrameCount /\ idx # tool.s.animCurFrame
    /\ FramesOp("sync", animSyncToFrame(tool.s, idx, ok), tool.ids)

\* handleAnimTouch, +FRM: a frame added is a new one, after the live one.
FramesAdded(r) ==
    FramesOp("add", r,
             IF r.animFrameCount > tool.s.animFrameCount
             THEN InsertedFrames(tool.ids, tool.s.animCurFrame, tool.fresh)
             ELSE tool.ids)

FramesAdd(ok, ok2) ==
    /\ FramesIdle
    /\ \E r \in {animAddFrame(tool.s, ok, ok2)} : FramesAdded(r)

\* handleAnimTouch, -FRM: with two or more frames the live one goes.
FramesDelete ==
    /\ FramesIdle
    /\ FramesOp("delete", [animDeleteFrame(tool.s) EXCEPT !.ret = "none"],
                IF tool.s.animFrameCount >= 2
                THEN RemovedFrames(tool.ids, tool.s.animCurFrame)
                ELSE tool.ids)

\* handleAnimTouch, MOV then a filmstrip tap: the live frame goes to `to`.
FramesMoved(r) ==
    FramesOp("move", r, MovedFrames(tool.ids, tool.s.animCurFrame, r.animCurFrame))

FramesMove(to, ok) ==
    /\ FramesIdle
    /\ to < tool.s.animFrameCount /\ to # tool.s.animCurFrame
    /\ \E r \in {animMoveFrame(tool.s, tool.s.animCurFrame, to, ok)} : FramesMoved(r)

\* handleAnimTouch, SWP then a filmstrip tap on another frame.
FramesSwapped(r) ==
    FramesOp("swap", r, SwappedFrames(tool.ids, tool.s.animCurFrame, r.animCurFrame))

FramesSwap(b, ok) ==
    /\ FramesIdle
    /\ b < tool.s.animFrameCount /\ b # tool.s.animCurFrame
    /\ \E r \in {animSwapFrames(tool.s, tool.s.animCurFrame, b, ok)} : FramesSwapped(r)

\* handleAnimTouch, PLAY.
FramesPlay(ok) ==
    /\ FramesIdle
    /\ tool.s.animFrameCount >= 2
    /\ FramesOp("play", animPlay(tool.s, ok), tool.ids)

\* handleAnimTouch during playback: any touch stops it.
FramesStop ==
    /\ FramesReady /\ tool.s.currentScreen = "SCR_ANIM" /\ tool.s.animPlaying
    /\ FramesOp("stop", [animStop(tool.s) EXCEPT !.ret = "none"], tool.ids)

\* loop(), playback tick.
FramesTick ==
    /\ FramesReady /\ tool.s.currentScreen = "SCR_ANIM" /\ tool.s.animPlaying
    /\ FramesOp("tick", [animTick(tool.s) EXCEPT !.ret = "none"], tool.ids)

FramesNext ==
    \/ \E p \in PaintPixels, c \in PaintColors, ok \in BOOLEAN : FramesStroke(p, c, ok)
    \/ \E ok \in BOOLEAN : FramesUndo(ok)
    \/ \E ok \in BOOLEAN : FramesRedo(ok)
    \/ \E ok \in BOOLEAN : FramesGoAnim(ok)
    \/ FramesDraw
    \/ \E idx \in 0..(MAX_FRAMES - 1), ok \in BOOLEAN : FramesNav(idx, ok)
    \/ \E ok \in BOOLEAN, ok2 \in BOOLEAN : FramesAdd(ok, ok2)
    \/ FramesDelete
    \/ \E to \in 0..(MAX_FRAMES - 1), ok \in BOOLEAN : FramesMove(to, ok)
    \/ \E b \in 0..(MAX_FRAMES - 1), ok \in BOOLEAN : FramesSwap(b, ok)
    \/ \E ok \in BOOLEAN : FramesPlay(ok)
    \/ FramesStop
    \/ FramesTick

SpecFrames == FramesInit /\ [][FramesNext]_vars

\* C40: undoPerform and redoPerform never put on the canvas a snapshot taken
\* while another frame was live: whenever an undo or a redo has restored a
\* snapshot, it is one of the frame that is live now.
C40_UndoOwnFrame ==
    (tool.pc = "frames" /\ tool.op \in {"undo", "redo"}) =>
        tool.from = LiveId(tool)

====
